---- MODULE Spec2Model ----
(***************************************************************************)
(* A model of the packfleet/datetime utility library: the Now indirection  *)
(* and its test substitution (mockNow / unmockNow), the comparison          *)
(* predicates built on it, the boundary calculations (start/end of day,     *)
(* week, month), business-day stepping and the relative-time unit cascade.  *)
(*                                                                          *)
(* Values of the underlying Temporal library are modelled as records:       *)
(*   PlainDate      [year, month, day]                                      *)
(*   PlainTime      [sod, ns]     second of day, nanosecond of the second   *)
(*   Instant        [s, ns]       epoch seconds, nanosecond of the second   *)
(*   ZonedDateTime  [inst, tz]    an Instant and an IANA zone identifier    *)
(* Epoch nanoseconds do not fit the 32-bit integers of TLC, so an instant   *)
(* keeps its whole seconds and its nanosecond part apart.                   *)
(***************************************************************************)
EXTENDS Integers, Sequences, FiniteSets, TLC

VARIABLES
    hostClock,   \* the host's system clock: epoch seconds of the real time
    spyImpl,     \* the fixed instant installed on Temporal.Now.instant, if any
    spyCalls,    \* calls the spy has recorded (mock.calls.length)
    spyDefined,  \* whether the module variable `spy` holds a MockInstance
    last,        \* the most recent library call: [op, ..arguments.., result]
    abd,         \* the running addBusinessDays call (its locals and position)
    env          \* the JavaScript host: its time zone and its Intl object

vars == <<hostClock, spyImpl, spyCalls, spyDefined, last, abd, env>>

----------------------------------------------------------------------------
(* Bounds of the model *)

\* Days after its anchor date that each date window spans.
DateSpan == 6
\* Largest number of business days asked of addBusinessDays.
MaxN == 4
\* Calls a spy records before the model stops counting them.
MaxCalls == 2
\* Times the host clock advances.
MaxTicks == 2
\* Days on either side of now that formatRelativeInstant is asked about.
MaxRelDays == 400

----------------------------------------------------------------------------
(* The ISO calendar of Temporal.PlainDate *)

Date(y, m, d) == [year |-> y, month |-> m, day |-> d]

\* Days from 1970-01-01 to the date (proleptic Gregorian calendar): the
\* year counted from March, the day of that year, the day of the 400-year era.
YearFromMarch(date) == IF date.month <= 2 THEN date.year - 1 ELSE date.year
DayOfYearFromMarch(date) == (153 * ((date.month + 9) % 12) + 2) \div 5 + date.day - 1
DayOfEra(yoe, doy) == yoe * 365 + yoe \div 4 - yoe \div 100 + doy
EpochDayOf(y, doy) ==
    (y \div 400) * 146097 + DayOfEra(y - (y \div 400) * 400, doy) - 719468
ToEpochDay(date) == EpochDayOf(YearFromMarch(date), DayOfYearFromMarch(date))

\* The date of an epoch day, found era by era, year by year, month by month.
CivilFromMonth(y, mp, doy) ==
    Date(IF mp < 10 THEN y ELSE y + 1,
         IF mp < 10 THEN mp + 3 ELSE mp - 9,
         doy - (153 * mp + 2) \div 5 + 1)
CivilFromDayOfYear(y, doy) == CivilFromMonth(y, (5 * doy + 2) \div 153, doy)
CivilFromYearOfEra(era, doe, yoe) ==
    CivilFromDayOfYear(yoe + era * 400, doe - (365 * yoe + yoe \div 4 - yoe \div 100))
CivilFromDayOfEra(era, doe) ==
    CivilFromYearOfEra(era, doe,
                       (doe - doe \div 1460 + doe \div 36524 - doe \div 146096) \div 365)
CivilFromShifted(z) == CivilFromDayOfEra(z \div 146097, z - (z \div 146097) * 146097)
FromEpochDay(e) == CivilFromShifted(e + 719468)

\* date.add({ days: n }) and date.subtract({ days: n })
AddDays(date, n) == FromEpochDay(ToEpochDay(date) + n)
SubtractDays(date, n) == FromEpochDay(ToEpochDay(date) - n)

\* date.dayOfWeek: Monday is 1, Sunday is 7 (1970-01-01 was a Thursday).
WeekdayOfEpochDay(e) == ((e + 3) % 7) + 1
DayOfWeek(date) == WeekdayOfEpochDay(ToEpochDay(date))

IsLeapYear(y) == (y % 4 = 0) /\ ((y % 100 # 0) \/ (y % 400 = 0))

\* date.daysInMonth
DaysInMonth(date) ==
    IF date.month = 2 THEN (IF IsLeapYear(date.year) THEN 29 ELSE 28)
    ELSE IF date.month \in {4, 6, 9, 11} THEN 30 ELSE 31

\* Temporal.PlainDate.compare(a, b): -1, 0 or 1
CompareDate(a, b) ==
    IF a.year # b.year THEN (IF a.year < b.year THEN -1 ELSE 1)
    ELSE IF a.month # b.month THEN (IF a.month < b.month THEN -1 ELSE 1)
    ELSE IF a.day # b.day THEN (IF a.day < b.day THEN -1 ELSE 1)
    ELSE 0

----------------------------------------------------------------------------
(* Instants *)

Inst(sec, nano) == [s |-> sec, ns |-> nano]

\* Epoch seconds of a UTC wall time.
EpochSec(y, m, d, hh, mm, ss) ==
    ToEpochDay(Date(y, m, d)) * 86400 + hh * 3600 + mm * 60 + ss

\* Temporal.Instant.compare(a, b): -1, 0 or 1
CompareInstant(a, b) ==
    IF a.s # b.s THEN (IF a.s < b.s THEN -1 ELSE 1)
    ELSE IF a.ns # b.ns THEN (IF a.ns < b.ns THEN -1 ELSE 1)
    ELSE 0

----------------------------------------------------------------------------
(* The time-zone database: UTC offset, in seconds, of a zone at an instant *)

Zones == {"UTC", "Europe/London", "America/Halifax", "Japan", "America/Sao_Paulo"}

\* Epoch day of the last Sunday of a month and of its n-th Sunday.
SundayOnOrBefore(e) == e - (WeekdayOfEpochDay(e) % 7)
SundayOnOrAfter(e) == e + ((7 - WeekdayOfEpochDay(e)) % 7)
LastSunday(y, m) == SundayOnOrBefore(ToEpochDay(Date(y, m, DaysInMonth(Date(y, m, 1)))))
NthSunday(y, m, n) == SundayOnOrAfter(ToEpochDay(Date(y, m, 1))) + 7 * (n - 1)

\* The offset of a zone at an instant of the year y.
OffsetInYear(tz, sec, y) ==
    CASE tz = "UTC" -> 0
      [] tz = "Japan" -> 32400
      [] tz = "Europe/London" ->
            \* British Summer Time: last Sunday of March to last Sunday of
            \* October, switching at 01:00 UTC.
            IF /\ sec >= LastSunday(y, 3) * 86400 + 3600
               /\ sec < LastSunday(y, 10) * 86400 + 3600
            THEN 3600 ELSE 0
      [] tz = "America/Halifax" ->
            \* Atlantic Daylight Time: second Sunday of March to first Sunday
            \* of November, switching at 02:00 local time.
            IF /\ sec >= NthSunday(y, 3, 2) * 86400 + 6 * 3600
               /\ sec < NthSunday(y, 11, 1) * 86400 + 5 * 3600
            THEN -10800 ELSE -14400
      [] tz = "America/Sao_Paulo" ->
            \* Brasilia summer time 2017/18 and 2018/19 (the last ones),
            \* switching at local midnight.
            IF \/ /\ sec >= EpochSec(2017, 10, 15, 3, 0, 0)
                  /\ sec < EpochSec(2018, 2, 18, 2, 0, 0)
               \/ /\ sec >= EpochSec(2018, 11, 4, 3, 0, 0)
                  /\ sec < EpochSec(2019, 2, 17, 2, 0, 0)
            THEN -7200 ELSE -10800

OffsetAt(tz, sec) == OffsetInYear(tz, sec, FromEpochDay(sec \div 86400).year)

\* Wall-clock seconds (seconds since 1970-01-01T00:00 local) of an instant.
LocalSec(inst, tz) == inst.s + OffsetAt(tz, inst.s)

SetMin(S) == CHOOSE x \in S : \A y \in S : x <= y

\* The instants whose wall time in tz is localSec (none in a gap, two in an overlap).
PossibleInstants(localSec, tz) ==
    { c \in { localSec - OffsetAt(tz, localSec - 86400),
              localSec - OffsetAt(tz, localSec + 86400) } :
        c + OffsetAt(tz, c) = localSec }

\* Wall time to epoch seconds with Temporal's default disambiguation
\* ("compatible"): the earlier instant of an overlap, and for a wall time
\* skipped by a gap the instant obtained with the offset before the gap.
EarliestOf(instants, localSec, tz) ==
    IF instants # {} THEN SetMin(instants)
    ELSE localSec - OffsetAt(tz, localSec - 86400)
WallToEpochSec(localSec, tz) == EarliestOf(PossibleInstants(localSec, tz), localSec, tz)

----------------------------------------------------------------------------
(* Zoned date-times and plain times *)

Zdt(i, zone) == [inst |-> i, tz |-> zone]

\* instant.toZonedDateTimeISO(timezone)
toZonedDateTimeISO(i, tz) == Zdt(i, tz)

\* zdt.toPlainDate()
ZdtToPlainDate(zdt) == FromEpochDay(LocalSec(zdt.inst, zdt.tz) \div 86400)

\* zdt.toPlainTime()
ZdtToPlainTime(zdt) == [sod |-> LocalSec(zdt.inst, zdt.tz) % 86400, ns |-> zdt.inst.ns]

\* new Temporal.PlainTime(): midnight
PlainTimeMidnight == [sod |-> 0, ns |-> 0]

\* time.subtract({ nanoseconds: 1 }): wraps around midnight
PlainTimeSubtractNano(t) ==
    IF t.ns > 0 THEN [sod |-> t.sod, ns |-> t.ns - 1]
    ELSE [sod |-> (t.sod + 86399) % 86400, ns |-> 999999999]

\* date.toZonedDateTime({ timeZone, plainTime })
DateToZonedDateTime(date, tz, plainTime) ==
    Zdt(Inst(WallToEpochSec(ToEpochDay(date) * 86400 + plainTime.sod, tz), plainTime.ns), tz)

----------------------------------------------------------------------------
(* Now: the single source of the current instant, and its test substitution *)

\* No implementation installed: the slot holds at most one fixed instant.
NoImpl == {}

\* Temporal.Now.instant(): the spy's implementation once vi.spyOn has
\* installed one, the host clock otherwise.
TemporalNowInstant ==
    IF spyImpl # NoImpl THEN CHOOSE i \in spyImpl : TRUE ELSE Inst(hostClock, 0)

\* The spy records a call made while it is installed.
RecordCall == IF spyImpl # NoImpl THEN spyCalls + 1 ELSE spyCalls

now == TemporalNowInstant

\* A nowLocal that asks the host for the zoned time instead of going through now().
nowLocalHostClock(timezone) == toZonedDateTimeISO(Inst(hostClock, 0), timezone)

nowLocal(timezone) == toZonedDateTimeISO(now, timezone)

todayLocal(timezone) == ZdtToPlainDate(nowLocal(timezone))

\* A currentTime taken from now().
currentTimeThroughNow(timezone) == ZdtToPlainTime(nowLocal(timezone))

\* Temporal.Now.plainTimeISO(timezone): reads the system clock itself, not
\* through Temporal.Now.instant.
currentTime(timezone) == ZdtToPlainTime(Zdt(Inst(hostClock, 0), timezone))

----------------------------------------------------------------------------
(* Comparison *)

\* An isToday that takes today's date in UTC whatever zone it is given.
isTodayUTC(date, timezone) == CompareDate(date, todayLocal("UTC")) = 0

isToday(date, timezone) == CompareDate(date, todayLocal(timezone)) = 0

\* An isTomorrow that shifts the date the wrong way.
isTomorrowInverted(date, timezone) == isToday(AddDays(date, 1), timezone)

isTomorrow(date, timezone) == isToday(SubtractDays(date, 1), timezone)

isYesterday(date, timezone) == isToday(AddDays(date, 1), timezone)

\* An isInstantBefore that also accepts equal instants.
isInstantBeforeOrEqual(instant, comparedWith) == CompareInstant(instant, comparedWith) # 1

isInstantBefore(instant, comparedWith) == CompareInstant(instant, comparedWith) = -1

areIntervalsOverlapping(interval1, interval2) ==
    /\ isInstantBefore(interval1.start, interval2.end)
    /\ isInstantBefore(interval2.start, interval1.end)

----------------------------------------------------------------------------
(* Calculations *)

startOfDay(date, timezone) == DateToZonedDateTime(date, timezone, PlainTimeMidnight)

endOfDay(date, timezone) ==
    DateToZonedDateTime(date, timezone, PlainTimeSubtractNano(PlainTimeMidnight))

\* A startOfWeek for weeks that start on Sunday.
startOfWeekSunday(date) == SubtractDays(date, DayOfWeek(date) % 7)

startOfWeek(date) == SubtractDays(date, DayOfWeek(date) - 1)

endOfWeek(date) == AddDays(date, 7 - DayOfWeek(date))

startOfMonth(date) == SubtractDays(date, date.day - 1)

\* An endOfMonth that takes every February to have 28 days.
endOfMonthNoLeap(date) ==
    AddDays(date, (IF date.month = 2 THEN 28 ELSE DaysInMonth(date)) - date.day)

endOfMonth(date) == AddDays(date, DaysInMonth(date) - date.day)

----------------------------------------------------------------------------
(* Inputs *)

\* The dates from an anchor date to DateSpan days after it.
Window(anchor) == { AddDays(anchor, k) : k \in 0..DateSpan }

\* Dates around the instants the clock is fixed at.
ClockDates == Window(Date(2022, 7, 6))

\* Instants a test fixes the clock at (comparison.spec.ts).
MockInstants == { Inst(EpochSec(2022, 7, 9, 20, 0, 0), 0),
                  Inst(EpochSec(2022, 7, 9, 2, 0, 0), 0) }

\* The host clock when the process starts.
HostStart == EpochSec(2022, 7, 9, 23, 30, 0)

----------------------------------------------------------------------------
(* The JavaScript host the library is loaded in *)

\* The constructors of the Intl object that the library looks for.
IntlFacilities == {"DateTimeFormat", "RelativeTimeFormat"}

\* A host in UTC with a complete Intl object.
FullHost == [hostZone |-> "UTC", intlObject |-> TRUE, facilities |-> IntlFacilities]

\* A call that throws: the error it throws.
Throws(name) == [error |-> name]

\* The errors the library throws itself when a facility is missing.
UnsupportedDateTimeFormat ==
    Throws("Intl.DateTimeFormat is not supported in this environment")
UnsupportedRelativeTimeFormat ==
    Throws("Intl.RelativeTimeFormat is not supported in this environment")

\* What `new Intl.DateTimeFormat(...)` throws where it cannot be built: a
\* ReferenceError without an Intl object, a TypeError when the Intl object
\* has no DateTimeFormat constructor.
NewDateTimeFormatError ==
    IF env.intlObject THEN Throws("TypeError") ELSE Throws("ReferenceError")

\* typeof Intl === "object" && typeof Intl.<facility> === "function"
IntlHas(facility) == env.intlObject /\ facility \in env.facilities

\* The module constants set when the library is loaded: a formatter, or null.
monthLongFormatter == IntlHas("DateTimeFormat")
monthShortFormatter == IntlHas("DateTimeFormat")
rtf == IntlHas("RelativeTimeFormat")
rtfNumeric == IntlHas("RelativeTimeFormat")

----------------------------------------------------------------------------
(* Initial state *)

Init ==
    /\ env = FullHost
    /\ hostClock = HostStart
    /\ spyImpl = NoImpl
    /\ spyCalls = 0
    /\ spyDefined = FALSE
    /\ last = [op |-> "none"]
    /\ abd = [pc |-> "idle"]

----------------------------------------------------------------------------
(* The clock and the calls that read it *)

\* Real time passes: half an hour at a time.
Tick ==
    /\ hostClock < HostStart + MaxTicks * 1800
    /\ hostClock' = hostClock + 1800
    /\ UNCHANGED <<spyImpl, spyCalls, spyDefined, last, abd, env>>

\* mockNow(instant): spy = vi.spyOn(Temporal.Now, "instant").mockImplementation(() => instant)
\* Spying on a method that is already spied on keeps the recorded calls.
\* A mockNow that leaves an implementation already installed in place.
mockNowKeepFirst(instant) ==
    /\ spyImpl' = IF spyImpl = NoImpl THEN {instant} ELSE spyImpl
    /\ spyDefined' = TRUE
    /\ last' = [op |-> "mockNow", inst |-> instant, replaced |-> spyImpl]
    /\ UNCHANGED <<hostClock, spyCalls, abd, env>>

\* The call records the implementation it replaces.
mockNow(instant) ==
    /\ spyImpl' = {instant}
    /\ spyDefined' = TRUE
    /\ last' = [op |-> "mockNow", inst |-> instant, replaced |-> spyImpl]
    /\ UNCHANGED <<hostClock, spyCalls, abd, env>>

\* unmockNow(): spy.mockClear() forgets the recorded calls and results and
\* leaves the implementation in place; with no spy yet, `spy` is undefined
\* and the call throws a TypeError.
unmockNow ==
    /\ IF spyDefined
       THEN /\ spyCalls' = 0
            /\ last' = [op |-> "unmockNow", result |-> "ok"]
       ELSE /\ spyCalls' = spyCalls
            /\ last' = [op |-> "unmockNow", result |-> "TypeError"]
    /\ UNCHANGED <<hostClock, spyImpl, spyDefined, abd, env>>

\* The clock as a call finds it: the fixed instant installed, if any, and
\* the host clock.
Clock == [mock |-> spyImpl, host |-> hostClock]

\* A call that reads the clock once, through Temporal.Now.instant.
ReadsClock ==
    /\ spyCalls < MaxCalls
    /\ spyCalls' = RecordCall
    /\ UNCHANGED <<hostClock, spyImpl, spyDefined, abd, env>>

CallNow ==
    /\ ReadsClock
    /\ last' = [op |-> "now", clock |-> Clock, result |-> now]

CallNowLocal(tz) ==
    /\ ReadsClock
    /\ last' = [op |-> "nowLocal", tz |-> tz, clock |-> Clock,
                result |-> nowLocal(tz)]

CallTodayLocal(tz) ==
    /\ ReadsClock
    /\ last' = [op |-> "todayLocal", tz |-> tz, clock |-> Clock,
                result |-> todayLocal(tz)]

CallCurrentTime(tz) ==
    /\ last' = [op |-> "currentTime", tz |-> tz, clock |-> Clock,
                result |-> currentTime(tz)]
    /\ UNCHANGED <<hostClock, spyImpl, spyCalls, spyDefined, abd, env>>

CallIsToday(d, tz) ==
    /\ ReadsClock
    /\ last' = [op |-> "isToday", date |-> d, tz |-> tz, clock |-> Clock,
                result |-> isToday(d, tz)]

CallIsTomorrow(d, tz) ==
    /\ ReadsClock
    /\ last' = [op |-> "isTomorrow", date |-> d, tz |-> tz, clock |-> Clock,
                result |-> isTomorrow(d, tz)]

CallIsYesterday(d, tz) ==
    /\ ReadsClock
    /\ last' = [op |-> "isYesterday", date |-> d, tz |-> tz, clock |-> Clock,
                result |-> isYesterday(d, tz)]

Next ==
    \/ Tick
    \/ \E i \in MockInstants : mockNow(i)
    \/ unmockNow
    \/ CallNow
    \/ \E tz \in Zones : CallNowLocal(tz)
    \/ \E tz \in Zones : CallTodayLocal(tz)
    \/ \E tz \in Zones : CallCurrentTime(tz)
    \/ \E d \in ClockDates, tz \in Zones : CallIsToday(d, tz)
    \/ \E d \in ClockDates, tz \in Zones : CallIsTomorrow(d, tz)
    \/ \E d \in ClockDates, tz \in Zones : CallIsYesterday(d, tz)

Spec == Init /\ [][Next]_vars

----------------------------------------------------------------------------
(* The calculations and the interval check, applied to chosen inputs *)

\* Dates around month ends, a year end, both kinds of February, and the
\* daylight-saving switches of Europe/London and America/Sao_Paulo.
CalcDates ==
    UNION { Window(a) : a \in { Date(2022, 7, 28), Date(2022, 12, 28),
                                Date(2022, 2, 12), Date(2022, 2, 24),
                                Date(2024, 2, 12), Date(2024, 2, 24),
                                Date(2022, 3, 24), Date(2022, 10, 27),
                                Date(2018, 2, 14), Date(2018, 10, 31) } }

\* Interval ends: three seconds-apart instants, each with and without a
\* trailing nanosecond.
IntervalInstants ==
    { Inst(EpochSec(2022, 7, 9, 20, 0, 0) + k, n) : k \in 0..2, n \in {0, 1} }

Intervals == [start : IntervalInstants, end : IntervalInstants]

\* The arguments of one call: a date and a zone, or two intervals.
InitCalc ==
    /\ env = FullHost
    /\ hostClock = HostStart
    /\ spyImpl = NoImpl
    /\ spyCalls = 0
    /\ spyDefined = FALSE
    /\ abd = [pc |-> "idle"]
    /\ \/ last \in [op : {"args"}, date : CalcDates, tz : Zones]
       \/ last \in [op : {"args"}, interval1 : Intervals, interval2 : Intervals]

HasDateArgs == last.op = "args" /\ "date" \in DOMAIN last
HasIntervalArgs == last.op = "args" /\ "interval1" \in DOMAIN last

\* The call returns: its result joins its arguments.
Returns(name, value) ==
    /\ last' = [last EXCEPT !.op = name] @@ [result |-> value]
    /\ UNCHANGED <<hostClock, spyImpl, spyCalls, spyDefined, abd, env>>

DoStartOfDay == HasDateArgs /\ Returns("startOfDay", startOfDay(last.date, last.tz))

DoEndOfDay == HasDateArgs /\ Returns("endOfDay", endOfDay(last.date, last.tz))

DoStartOfWeek == HasDateArgs /\ Returns("startOfWeek", startOfWeek(last.date))

DoEndOfWeek == HasDateArgs /\ Returns("endOfWeek", endOfWeek(last.date))

DoStartOfMonth == HasDateArgs /\ Returns("startOfMonth", startOfMonth(last.date))

DoEndOfMonth == HasDateArgs /\ Returns("endOfMonth", endOfMonth(last.date))

DoAreIntervalsOverlapping ==
    /\ HasIntervalArgs
    /\ Returns("areIntervalsOverlapping",
               areIntervalsOverlapping(last.interval1, last.interval2))

NextCalc ==
    \/ DoStartOfDay
    \/ DoEndOfDay
    \/ DoStartOfWeek
    \/ DoEndOfWeek
    \/ DoStartOfMonth
    \/ DoEndOfMonth
    \/ DoAreIntervalsOverlapping

SpecCalc == InitCalc /\ [][NextCalc]_vars

----------------------------------------------------------------------------
(* addBusinessDays, statement by statement *)

\* The default predicate: Monday to Friday.
IsWeekday(d) == DayOfWeek(d) >= 1 /\ DayOfWeek(d) <= 5

\* The predicates passed as isBusinessDay: the default, a holiday calendar on
\* top of it, weekends only, Sundays only, and one that never holds.
Predicates == {"weekdays", "holidays", "weekends", "sundays", "never"}

Holidays == { Date(2022, 8, 8), Date(2022, 8, 10) }

isBusinessDay(pred, d) ==
    CASE pred = "weekdays" -> IsWeekday(d)
      [] pred = "holidays" -> IsWeekday(d) /\ d \notin Holidays
      [] pred = "weekends" -> ~IsWeekday(d)
      [] pred = "sundays" -> DayOfWeek(d) = 7
      [] pred = "never" -> FALSE

BusinessDates == Window(Date(2022, 8, 1))

\* How far past `date` the model follows a call: enough for MaxN days of any
\* predicate that holds at least once a week.
Horizon == 7 * (MaxN + 2)

\* A for-loop test that stops one round early.
ForContinuesStrict(i, n) == i < n

\* A for-loop test that takes a negative n for its absolute value.
ForContinuesAbs(i, n) == i <= (IF n < 0 THEN 0 - n ELSE n)

\* A for-loop test that never stops the loop.
ForContinuesAlways(i, n) == TRUE

\* The for-loop's test: i <= n
ForContinues(i, n) == i <= n

\* The call starts: next = date, i = 1, and the predicate not yet called.
InitBusiness ==
    /\ env = FullHost
    /\ hostClock = HostStart
    /\ spyImpl = NoImpl
    /\ spyCalls = 0
    /\ spyDefined = FALSE
    /\ last = [op |-> "none"]
    /\ \E d \in BusinessDates, k \in (0 - 2)..MaxN, p \in Predicates :
          abd = [pc |-> "for", date |-> d, n |-> k, pred |-> p,
                 i |-> 1, next |-> d, calls |-> 0, skipped |-> 0]

\* for (let i = 1; i <= n; i += 1) { next = next.add({ days: 1 }); ... }  return next;
abdFor ==
    /\ abd.pc = "for"
    /\ IF ForContinues(abd.i, abd.n)
       THEN abd' = [abd EXCEPT !.next = AddDays(abd.next, 1), !.pc = "while",
                               !.skipped = 0]
       ELSE abd' = [abd EXCEPT !.pc = "done"]
    /\ UNCHANGED <<hostClock, spyImpl, spyCalls, spyDefined, last, env>>

\* while (!isBusinessDay(next)) { next = next.add({ days: 1 }); }   then i += 1
\* `skipped` counts the days the loop has passed over in the current round.
abdWhile ==
    /\ abd.pc = "while"
    /\ ToEpochDay(abd.next) - ToEpochDay(abd.date) < Horizon
    /\ IF ~isBusinessDay(abd.pred, abd.next)
       THEN abd' = [abd EXCEPT !.next = AddDays(abd.next, 1), !.calls = @ + 1,
                               !.skipped = @ + 1]
       ELSE abd' = [abd EXCEPT !.i = @ + 1, !.calls = @ + 1, !.pc = "for"]
    /\ UNCHANGED <<hostClock, spyImpl, spyCalls, spyDefined, last, env>>

NextBusiness == abdFor \/ abdWhile

SpecBusiness == InitBusiness /\ [][NextBusiness]_vars

\* The call runs on one thread and nothing suspends it: a statement that
\* can be executed is executed.
SpecBusinessRuns == SpecBusiness /\ WF_vars(abdFor) /\ WF_vars(abdWhile)

----------------------------------------------------------------------------
(* addBusinessDays as a function of its arguments, and calls of it in a row *)

\* A call that does not return.
Diverges == [diverges |-> TRUE]
Returns_(r) == "diverges" \notin DOMAIN r

\* while (!isBusinessDay(next)) { next = next.add({ days: 1 }); }
\* followed for `fuel` days; a predicate that fails on all of them is taken
\* to fail for ever.
RECURSIVE abdSkip(_, _, _)
abdSkip(pred, next, fuel) ==
    IF isBusinessDay(pred, next) THEN next
    ELSE IF fuel = 0 THEN Diverges
    ELSE abdSkip(pred, AddDays(next, 1), fuel - 1)

\* for (let i = 1; i <= n; i += 1) { next = next.add({ days: 1 }); while ... }
RECURSIVE abdRounds(_, _, _, _)
abdCounted(pred, found, i, n) ==
    IF Returns_(found) THEN abdRounds(pred, found, i + 1, n) ELSE Diverges

abdRounds(pred, next, i, n) ==
    IF ForContinues(i, n)
    THEN abdCounted(pred, abdSkip(pred, AddDays(next, 1), Horizon), i, n)
    ELSE next

\* addBusinessDays(date, n, isBusinessDay); a call whose argument is the
\* result of a call that does not return is never made.
addBusinessDays(date, n, pred) ==
    IF Returns_(date) THEN abdRounds(pred, date, 1, n) ELSE Diverges

InitCompose ==
    /\ env = FullHost
    /\ hostClock = HostStart
    /\ spyImpl = NoImpl
    /\ spyCalls = 0
    /\ spyDefined = FALSE
    /\ abd = [pc |-> "idle"]
    /\ last \in [op : {"args"}, date : BusinessDates, pred : Predicates,
                 a : 0..MaxN, b : 0..MaxN]

HasComposeArgs == last.op \in {"args", "addOnce", "addTwice", "addOneMore"}

\* addBusinessDays(addBusinessDays(date, a, p), b, p)
DoAddTwice ==
    /\ HasComposeArgs
    /\ last' = [op |-> "addTwice", date |-> last.date, pred |-> last.pred,
                a |-> last.a, b |-> last.b,
                first |-> addBusinessDays(last.date, last.a, last.pred),
                result |-> addBusinessDays(addBusinessDays(last.date, last.a, last.pred),
                                           last.b, last.pred)]
    /\ UNCHANGED <<hostClock, spyImpl, spyCalls, spyDefined, abd, env>>

\* addBusinessDays(date, a + b, p)
DoAddOnce ==
    /\ HasComposeArgs
    /\ last' = [op |-> "addOnce", date |-> last.date, pred |-> last.pred,
                a |-> last.a, b |-> last.b,
                result |-> addBusinessDays(last.date, last.a + last.b, last.pred)]
    /\ UNCHANGED <<hostClock, spyImpl, spyCalls, spyDefined, abd, env>>

\* addBusinessDays(date, a, p) and addBusinessDays(date, a + 1, p)
DoAddOneMore ==
    /\ HasComposeArgs
    /\ last' = [op |-> "addOneMore", date |-> last.date, pred |-> last.pred,
                a |-> last.a, b |-> last.b,
                result |-> addBusinessDays(last.date, last.a, last.pred),
                more |-> addBusinessDays(last.date, last.a + 1, last.pred)]
    /\ UNCHANGED <<hostClock, spyImpl, spyCalls, spyDefined, abd, env>>

NextCompose == DoAddTwice \/ DoAddOnce \/ DoAddOneMore

SpecCompose == InitCompose /\ [][NextCompose]_vars

----------------------------------------------------------------------------
(* Relative formatting: the unit cascade of formatRelativeInstant *)

\* date.add({ months: n }) with the day constrained to the month's length.
AddMonths(date, n) ==
    LET mi == date.year * 12 + (date.month - 1) + n
        y  == mi \div 12
        m  == (mi % 12) + 1
        dim == DaysInMonth(Date(y, m, 1))
    IN  Date(y, m, IF date.day > dim THEN dim ELSE date.day)

\* instant.since(other): a signed span of seconds and nanoseconds, kept as its
\* sign and its magnitude.
Since(instant, other) ==
    LET neg == CompareInstant(instant, other) = -1
        hi  == IF neg THEN other ELSE instant
        lo  == IF neg THEN instant ELSE other
        borrow == IF hi.ns < lo.ns THEN 1 ELSE 0
    IN  [neg |-> neg,
         s   |-> hi.s - lo.s - borrow,
         ns  |-> hi.ns - lo.ns + borrow * 1000000000]

\* A number as duration.total returns it: (+/-) (secs + fraction) / den, where
\* frac says whether a non-zero part of a second is left over.
Number(neg, secs, frac, den) == [neg |-> neg, secs |-> secs, frac |-> frac, den |-> den]

\* Math.floor in place of Math.trunc.
MathFloor(x) ==
    IF x.neg
    THEN 0 - ((x.secs + (IF x.frac THEN 1 ELSE 0) + x.den - 1) \div x.den)
    ELSE x.secs \div x.den

\* Math.trunc: towards zero.
MathTrunc(x) == IF x.neg THEN 0 - (x.secs \div x.den) ELSE x.secs \div x.den

\* The years of the calendar difference from date d1 to date d2 (the
\* library's date difference with largestUnit "year").
YearsUntil(d1, d2) ==
    LET sign == 0 - CompareDate(d1, d2)
        y0   == d2.year - d1.year
        mid0 == AddMonths(d1, y0 * 12)
        ms0  == 0 - CompareDate(mid0, d2)
        y1   == IF ms0 # sign THEN y0 - sign ELSE y0
        m1   == (d2.month - d1.month) + (IF ms0 # sign THEN sign * 12 ELSE 0)
        mid1 == AddMonths(d1, y1 * 12 + m1)
        ms1  == 0 - CompareDate(mid1, d2)
    IN  IF sign = 0 THEN 0
        ELSE IF ms0 = 0 THEN y0
        ELSE IF ms1 = 0 \/ ms1 = sign THEN y1
        ELSE IF m1 - sign = 0 - sign THEN y1 - sign
        ELSE y1

Abs(n) == IF n < 0 THEN 0 - n ELSE n

\* The length in days of the month (step 1 or -1) or year (step 12 or -12)
\* that starts at date `rel`.
DaysMoved(rel, step) == Abs(ToEpochDay(AddMonths(rel, step)) - ToEpochDay(rel))

\* The signed whole days of a span, a day being 86400 seconds.
SignedDays(duration) == (IF duration.neg THEN 0 - 1 ELSE 1) * (duration.s \div 86400)

\* The library's loop over months: while the days left are at least the length
\* of the next month, move `rel` one month on and count it.  The result is
\* [months counted, days left, length of the month the days left fall in].
RECURSIVE MonthsIn(_, _, _, _)
MonthsIn(rel, days, months, step) ==
    IF Abs(days) >= DaysMoved(rel, step)
    THEN MonthsIn(AddMonths(rel, step), days - step * DaysMoved(rel, step),
                  months + step, step)
    ELSE [months |-> months, days |-> days, len |-> DaysMoved(rel, step)]

\* The fractional number of months, from the result r of the loop.
TotalMonths(duration, r) ==
    Number(duration.neg,
           Abs(r.months) * r.len * 86400 + Abs(r.days) * 86400 + (duration.s % 86400),
           duration.ns > 0, r.len * 86400)

\* The fractional number of years: `years` whole years take `rel` to `moved`,
\* and the days left are a part of the year that starts there.
TotalYearsFrom(duration, years, left, len) ==
    Number(duration.neg,
           Abs(years) * len * 86400 + Abs(left) * 86400 + (duration.s % 86400),
           duration.ns > 0, len * 86400)

DaysLeft(rel, days, moved) == days - (ToEpochDay(moved) - ToEpochDay(rel))

TotalYearsAt(duration, rel, days, years, moved) ==
    TotalYearsFrom(duration, years, DaysLeft(rel, days, moved),
                   DaysMoved(moved, IF DaysLeft(rel, days, moved) < 0 THEN 0 - 12 ELSE 12))

TotalYears(duration, rel, days, years) ==
    TotalYearsAt(duration, rel, days, years, AddMonths(rel, years * 12))

\* duration.total({ unit, relativeTo }) for a span of seconds and nanoseconds
\* and a relativeTo in UTC, where every day has 86400 seconds.
Total(duration, unit, relativeTo) ==
    CASE unit = "seconds" -> Number(duration.neg, duration.s, duration.ns > 0, 1)
      [] unit = "minutes" -> Number(duration.neg, duration.s, duration.ns > 0, 60)
      [] unit = "hours"   -> Number(duration.neg, duration.s, duration.ns > 0, 3600)
      [] unit = "days"    -> Number(duration.neg, duration.s, duration.ns > 0, 86400)
      [] unit = "weeks"   -> Number(duration.neg, duration.s, duration.ns > 0, 7 * 86400)
      [] unit = "months"  ->
            TotalMonths(duration,
                        MonthsIn(ZdtToPlainDate(relativeTo), SignedDays(duration), 0,
                                 IF duration.neg THEN 0 - 1 ELSE 1))
      [] unit = "years"   ->
            TotalYears(duration, ZdtToPlainDate(relativeTo), SignedDays(duration),
                       YearsUntil(ZdtToPlainDate(relativeTo),
                                  AddDays(ZdtToPlainDate(relativeTo), SignedDays(duration))))

Units == <<"years", "months", "weeks", "days", "hours", "minutes", "seconds">>

\* rtf.format(d, unit) with numeric "always": "<n> <unit>s ago" or "in <n> <unit>s".
rtfFormat(d, unit) ==
    [phrase |-> IF d < 0 THEN "ago" ELSE "in", num |-> d, unit |-> unit]

\* rtfNumeric.format(0, "seconds") with numeric "auto": "now".
rtfNumericFormatZeroSeconds == [phrase |-> "now", num |-> 0, unit |-> "seconds"]

\* The loop over the units, from unit number k on: the first unit whose
\* truncated total is not zero gives the phrase.
RECURSIVE UnitCascade(_, _)
UnitCascade(duration, k) ==
    IF k > Len(Units) THEN rtfNumericFormatZeroSeconds
    ELSE IF MathTrunc(Total(duration, Units[k], nowLocal("UTC"))) # 0
    THEN rtfFormat(MathTrunc(Total(duration, Units[k], nowLocal("UTC"))), Units[k])
    ELSE UnitCascade(duration, k + 1)

formatRelativeInstant(instant) ==
    IF ~rtf \/ ~rtfNumeric THEN UnsupportedRelativeTimeFormat
    ELSE UnitCascade(Since(instant, now), 1)

\* The number of the unit of a phrase, and the clock reads of the call that
\* returned it: one for now(), one for each unit looked at.
UnitNumber(unit) == CHOOSE k \in 1..Len(Units) : Units[k] = unit
ClockReads(phrase) ==
    1 + (IF phrase.phrase = "now" THEN Len(Units) ELSE UnitNumber(phrase.unit))

\* Instants the clock is fixed at: the one of formatting.spec.ts and the last
\* hour of a January in a leap year.
RelativeNows == { Inst(EpochSec(2022, 5, 5, 10, 12, 13), 0),
                  Inst(EpochSec(2024, 1, 31, 23, 0, 0), 0) }

\* Offsets within a day, in seconds, and parts of a second, in nanoseconds.
SecondOffsets == {0, 1, 59, 60, 3599, 3600, 50400, 83169, 86399}
NanoOffsets == {0, 500000000}

\* The clock is fixed (mockNow) and an instant around it is the argument.
InitRelative ==
    /\ env = FullHost
    /\ hostClock = HostStart
    /\ spyCalls = 0
    /\ spyDefined = TRUE
    /\ abd = [pc |-> "idle"]
    /\ \E n \in RelativeNows :
          /\ spyImpl = {n}
          /\ \E d \in (0 - MaxRelDays)..MaxRelDays, so \in SecondOffsets, no \in NanoOffsets :
                last = [op |-> "args", instant |-> Inst(n.s + d * 86400 + so, no)]

DoFormatRelativeInstant ==
    /\ last.op = "args"
    /\ last' = [op |-> "formatRelativeInstant", instant |-> last.instant,
                result |-> formatRelativeInstant(last.instant)]
    /\ spyCalls' = spyCalls + ClockReads(formatRelativeInstant(last.instant))
    /\ UNCHANGED <<hostClock, spyImpl, spyDefined, abd, env>>

NextRelative == DoFormatRelativeInstant

SpecRelative == InitRelative /\ [][NextRelative]_vars

----------------------------------------------------------------------------
(* The order and equality predicates of comparison.ts *)

\* The absent values of JavaScript.
Null == [absent |-> "null"]
Undefined == [absent |-> "undefined"]
\* x == null, which null and undefined both satisfy.
IsNullish(x) == x \in {Null, Undefined}

\* Temporal.PlainTime: the second of the day and the nanosecond of the second.
Time(hh, mm, ss, nano) == [sod |-> hh * 3600 + mm * 60 + ss, ns |-> nano]

\* Temporal.PlainTime.compare(a, b): -1, 0 or 1
CompareTime(a, b) ==
    IF a.sod < b.sod THEN 0 - 1
    ELSE IF a.sod > b.sod THEN 1
    ELSE IF a.ns < b.ns THEN 0 - 1
    ELSE IF a.ns > b.ns THEN 1
    ELSE 0

\* a.equals(b) of PlainDate, PlainTime and Instant: every field is the same.
DateEquals(a, b) == a.year = b.year /\ a.month = b.month /\ a.day = b.day
TimeEquals(a, b) == a.sod = b.sod /\ a.ns = b.ns
InstantEquals(a, b) == a.s = b.s /\ a.ns = b.ns

isDateEqual(date, comparedWith) == DateEquals(date, comparedWith)

\* isDateAfter with >= in place of >.
isDateAfterOrEqual(date, comparedWith) == CompareDate(date, comparedWith) >= 0

isDateAfter(date, comparedWith) == CompareDate(date, comparedWith) = 1
isDateBefore(date, comparedWith) == CompareDate(date, comparedWith) = 0 - 1

isTimeAfter(time, comparedWith) == CompareTime(time, comparedWith) = 1
isTimeEqual(time, comparedWith) == TimeEquals(time, comparedWith)
isTimeBefore(time, comparedWith) == CompareTime(time, comparedWith) = 0 - 1

isInstantAfter(instant, comparedWith) == CompareInstant(instant, comparedWith) = 1
isInstantEqual(instant, comparedWith) == InstantEquals(instant, comparedWith)

\* isOptionalDateEqual testing only the first operand for absence.
isOptionalDateEqualFirstOnly(date, comparedWith) ==
    IF IsNullish(date) THEN TRUE
    ELSE IF IsNullish(comparedWith) THEN FALSE
    ELSE isDateEqual(date, comparedWith)

isOptionalDateEqual(date, comparedWith) ==
    IF IsNullish(date) /\ IsNullish(comparedWith) THEN TRUE
    ELSE IF IsNullish(date) THEN FALSE
    ELSE IF IsNullish(comparedWith) THEN FALSE
    ELSE isDateEqual(date, comparedWith)

isOptionalInstantEqual(instant, comparedWith) ==
    IF IsNullish(instant) /\ IsNullish(comparedWith) THEN TRUE
    ELSE IF IsNullish(instant) THEN FALSE
    ELSE IF IsNullish(comparedWith) THEN FALSE
    ELSE InstantEquals(instant, comparedWith)

\* Operands of the predicates: dates across a month end, times around noon
\* with and without a fraction, instants a nanosecond and a second apart.
\* Temporal.Duration of clock units: hours, minutes and seconds.
Duration(hh, mm, ss) == [hours |-> hh, minutes |-> mm, seconds |-> ss]
DurationSeconds(d) == d.hours * 3600 + d.minutes * 60 + d.seconds

\* Duration.compare taking the fields one by one, hours first.
DurationCompareByField(one, two) ==
    IF one.hours # two.hours THEN (IF one.hours < two.hours THEN -1 ELSE 1)
    ELSE IF one.minutes # two.minutes THEN (IF one.minutes < two.minutes THEN -1 ELSE 1)
    ELSE IF one.seconds # two.seconds THEN (IF one.seconds < two.seconds THEN -1 ELSE 1)
    ELSE 0

\* Temporal.Duration.compare(one, two) without calendar units: 0 for equal
\* fields, otherwise the total lengths are compared.
DurationCompare(one, two) ==
    IF one = two THEN 0
    ELSE IF DurationSeconds(one) < DurationSeconds(two) THEN -1
    ELSE IF DurationSeconds(one) > DurationSeconds(two) THEN 1
    ELSE 0

isDurationGreater(duration, comparedWith) == DurationCompare(duration, comparedWith) = 1
isDurationEqual(duration, comparedWith) == DurationCompare(duration, comparedWith) = 0
isDurationLess(duration, comparedWith) == DurationCompare(duration, comparedWith) = -1

CompareDurations == { Duration(hh, mm, ss) : hh \in {0, 1, 2}, mm \in {0, 59, 60, 61},
                                             ss \in {0, 60} }

CompareDates == Window(Date(2022, 7, 28))
CompareTimes == { Time(hh, mm, 0, nano) : hh \in {0, 12, 23}, mm \in {0, 59},
                                           nano \in {0, 1} }
CompareInstants == { Inst(EpochSec(2022, 7, 9, 20, 0, ss), nano) :
                        ss \in {0, 1}, nano \in {0, 1, 999999999} }

\* The operands are drawn first; a call then applies every predicate of
\* the operands' kind to them.
\* A date to be compared with today comes with a zone, the clock being fixed.
InitCompare ==
    /\ env = FullHost
    /\ hostClock = HostStart
    /\ spyCalls = 0
    /\ abd = [pc |-> "idle"]
    /\ \/ /\ spyImpl = NoImpl
          /\ spyDefined = FALSE
          /\ last \in
               [op : {"args"}, kind : {"date"},
                a : CompareDates \cup {Null, Undefined}, b : CompareDates \cup {Null, Undefined}]
               \cup [op : {"args"}, kind : {"time"}, a : CompareTimes, b : CompareTimes]
               \cup [op : {"args"}, kind : {"duration"}, a : CompareDurations, b : CompareDurations]
               \cup [op : {"args"}, kind : {"instant"},
                     a : CompareInstants \cup {Null, Undefined},
                     b : CompareInstants \cup {Null, Undefined}]
       \/ /\ \E i \in MockInstants : spyImpl = {i}
          /\ spyDefined = TRUE
          /\ last \in [op : {"args"}, kind : {"today"}, a : ClockDates, tz : Zones]

\* Both operands are values, as the non-optional predicates require.
BothPresent == ~IsNullish(last.a) /\ ~IsNullish(last.b)

DoCompareDates ==
    /\ last.op = "args" /\ last.kind = "date" /\ BothPresent
    /\ last' = [op |-> "compareDates", a |-> last.a, b |-> last.b,
                equal  |-> isDateEqual(last.a, last.b),
                after  |-> isDateAfter(last.a, last.b),
                before |-> isDateBefore(last.a, last.b)]
    /\ UNCHANGED <<hostClock, spyImpl, spyCalls, spyDefined, abd, env>>

DoCompareTimes ==
    /\ last.op = "args" /\ last.kind = "time"
    /\ last' = [op |-> "compareTimes", a |-> last.a, b |-> last.b,
                equal  |-> isTimeEqual(last.a, last.b),
                after  |-> isTimeAfter(last.a, last.b),
                before |-> isTimeBefore(last.a, last.b)]
    /\ UNCHANGED <<hostClock, spyImpl, spyCalls, spyDefined, abd, env>>

DoCompareInstants ==
    /\ last.op = "args" /\ last.kind = "instant" /\ BothPresent
    /\ last' = [op |-> "compareInstants", a |-> last.a, b |-> last.b,
                equal  |-> isInstantEqual(last.a, last.b),
                after  |-> isInstantAfter(last.a, last.b),
                before |-> isInstantBefore(last.a, last.b)]
    /\ UNCHANGED <<hostClock, spyImpl, spyCalls, spyDefined, abd, env>>

DoCompareDurations ==
    /\ last.op = "args" /\ last.kind = "duration"
    /\ last' = [op |-> "compareDurations", a |-> last.a, b |-> last.b,
                equal  |-> isDurationEqual(last.a, last.b),
                after  |-> isDurationGreater(last.a, last.b),
                before |-> isDurationLess(last.a, last.b)]
    /\ UNCHANGED <<hostClock, spyImpl, spyCalls, spyDefined, abd, env>>

DoIsOptionalDateEqual ==
    /\ last.op = "args" /\ last.kind = "date"
    /\ last' = [op |-> "isOptionalDateEqual", a |-> last.a, b |-> last.b,
                result |-> isOptionalDateEqual(last.a, last.b)]
    /\ UNCHANGED <<hostClock, spyImpl, spyCalls, spyDefined, abd, env>>

DoIsOptionalInstantEqual ==
    /\ last.op = "args" /\ last.kind = "instant"
    /\ last' = [op |-> "isOptionalInstantEqual", a |-> last.a, b |-> last.b,
                result |-> isOptionalInstantEqual(last.a, last.b)]
    /\ UNCHANGED <<hostClock, spyImpl, spyCalls, spyDefined, abd, env>>

\* isToday, isTomorrow and isYesterday of one date in one zone, each reading
\* the clock once.
DoCompareWithToday ==
    /\ last.op = "args" /\ last.kind = "today"
    /\ last' = [op |-> "compareWithToday", a |-> last.a, tz |-> last.tz,
                today     |-> isToday(last.a, last.tz),
                tomorrow  |-> isTomorrow(last.a, last.tz),
                yesterday |-> isYesterday(last.a, last.tz)]
    /\ spyCalls' = spyCalls + 3
    /\ UNCHANGED <<hostClock, spyImpl, spyDefined, abd, env>>

NextCompare ==
    \/ DoCompareWithToday
    \/ DoCompareDates
    \/ DoCompareTimes
    \/ DoCompareInstants
    \/ DoCompareDurations
    \/ DoIsOptionalDateEqual
    \/ DoIsOptionalInstantEqual

SpecCompare == InitCompare /\ [][NextCompare]_vars

----------------------------------------------------------------------------
(* ISO 8601 strings and the parsers of parsing.ts *)

\* A string: the sequence of its characters.
Str(chars) == [chars |-> chars]
EmptyString == Str(<<>>)

\* !x for a string, null or undefined: the empty string is falsy as well.
Falsy(x) == IsNullish(x) \/ x = EmptyString

DigitChars == <<"0", "1", "2", "3", "4", "5", "6", "7", "8", "9">>
IsDigit(c) == \E n \in 1..10 : DigitChars[n] = c
DigitVal(c) == (CHOOSE n \in 1..10 : DigitChars[n] = c) - 1
DigitChar(n) == DigitChars[n + 1]

\* Character c stands at position p, and n digits stand from position p on.
CharAt(s, p, c) == p <= Len(s) /\ s[p] = c
AllDigits(s, p, n) == p + n - 1 <= Len(s) /\ \A i \in p..(p + n - 1) : IsDigit(s[i])
Num2(s, p) == 10 * DigitVal(s[p]) + DigitVal(s[p + 1])
Num4(s, p) == 100 * Num2(s, p) + Num2(s, p + 2)

\* The digits that follow from position p on, and their value as the
\* fraction of a second, in nanoseconds.
RECURSIVE DigitRun(_, _)
DigitRun(s, p) == IF p <= Len(s) /\ IsDigit(s[p]) THEN 1 + DigitRun(s, p + 1) ELSE 0

RECURSIVE FracValue(_, _, _, _)
FracValue(s, p, n, scale) ==
    IF n = 0 THEN 0
    ELSE DigitVal(s[p]) * scale + FracValue(s, p + 1, n - 1, scale \div 10)

\* The zone names a bracketed annotation may carry.
ZoneChars ==
    [ z \in {"UTC", "Europe/London", "Japan"} |->
        CASE z = "UTC" -> <<"U", "T", "C">>
          [] z = "Europe/London" -> <<"E", "u", "r", "o", "p", "e", "/", "L", "o", "n", "d", "o", "n">>
          [] z = "Japan" -> <<"J", "a", "p", "a", "n">> ]
IsZoneName(name) == \E z \in DOMAIN ZoneChars : ZoneChars[z] = name
ZoneNamed(name) == CHOOSE z \in DOMAIN ZoneChars : ZoneChars[z] = name

\* What Temporal throws for a string it cannot read.
RangeError == Throws("RangeError")
IsError(r) == "error" \in DOMAIN r

\* The parts read from a string: a date, a wall time if there is one, a UTC
\* offset ("none", "Z" or "numeric") and a zone annotation ("none" or a zone).
Parsed(date, hasTime, sod, ns, offset, offSec, zone) ==
    [date |-> date, hasTime |-> hasTime, sod |-> sod, ns |-> ns,
     offset |-> offset, offSec |-> offSec, zone |-> zone]

\* The string is read from left to right; each step reads one part at
\* position p and hands the rest to the next step.
ScanZone(s, p, date, hasTime, sod, ns, offset, offSec) ==
    IF p > Len(s) THEN Parsed(date, hasTime, sod, ns, offset, offSec, "none")
    ELSE IF /\ s[p] = "[" /\ s[Len(s)] = "]"
            /\ IsZoneName(SubSeq(s, p + 1, Len(s) - 1))
    THEN Parsed(date, hasTime, sod, ns, offset, offSec,
                ZoneNamed(SubSeq(s, p + 1, Len(s) - 1)))
    ELSE RangeError

ScanOffset(s, p, date, sod, ns) ==
    IF CharAt(s, p, "Z") THEN ScanZone(s, p + 1, date, TRUE, sod, ns, "Z", 0)
    ELSE IF CharAt(s, p, "+") \/ CharAt(s, p, "-")
    THEN IF /\ AllDigits(s, p + 1, 2) /\ CharAt(s, p + 3, ":") /\ AllDigits(s, p + 4, 2)
            /\ Num2(s, p + 1) <= 23 /\ Num2(s, p + 4) <= 59
         THEN ScanZone(s, p + 6, date, TRUE, sod, ns, "numeric",
                       (IF s[p] = "-" THEN 0 - 1 ELSE 1)
                          * (Num2(s, p + 1) * 3600 + Num2(s, p + 4) * 60))
         ELSE RangeError
    ELSE ScanZone(s, p, date, TRUE, sod, ns, "none", 0)

ScanFraction(s, p, date, sod) ==
    IF CharAt(s, p, ".")
    THEN IF DigitRun(s, p + 1) \in 1..9
         THEN ScanOffset(s, p + 1 + DigitRun(s, p + 1), date, sod,
                         FracValue(s, p + 1, DigitRun(s, p + 1), 100000000))
         ELSE RangeError
    ELSE ScanOffset(s, p, date, sod, 0)

ScanSeconds(s, p, date, sod) ==
    IF CharAt(s, p, ":")
    THEN IF AllDigits(s, p + 1, 2) /\ Num2(s, p + 1) <= 59
         THEN ScanFraction(s, p + 3, date, sod + Num2(s, p + 1))
         ELSE RangeError
    ELSE ScanOffset(s, p, date, sod, 0)

ScanClock(s, p, date) ==
    IF /\ AllDigits(s, p, 2) /\ CharAt(s, p + 2, ":") /\ AllDigits(s, p + 3, 2)
       /\ Num2(s, p) <= 23 /\ Num2(s, p + 3) <= 59
    THEN ScanSeconds(s, p + 5, date, Num2(s, p) * 3600 + Num2(s, p + 3) * 60)
    ELSE RangeError

\* After a date: a time introduced by T, or nothing but a zone annotation.
ScanTime(s, p, date) ==
    IF CharAt(s, p, "T") THEN ScanClock(s, p + 1, date)
    ELSE ScanZone(s, p, date, FALSE, 0, 0, "none", 0)

ScanDate(s) ==
    IF /\ AllDigits(s, 1, 4) /\ CharAt(s, 5, "-") /\ AllDigits(s, 6, 2)
       /\ CharAt(s, 8, "-") /\ AllDigits(s, 9, 2)
       /\ Num2(s, 6) \in 1..12
       /\ Num2(s, 9) \in 1..DaysInMonth(Date(Num4(s, 1), Num2(s, 6), 1))
    THEN ScanTime(s, 11, Date(Num4(s, 1), Num2(s, 6), Num2(s, 9)))
    ELSE RangeError

\* A string that starts with a time of day carries no date.
NoDate == [year |-> 0, month |-> 0, day |-> 0]
ScanTimeOnly(s) == ScanClock(s, 1, NoDate)

\* Temporal.PlainDate.from: a date, and no Z.
PlainDateOf(r) ==
    IF IsError(r) THEN r ELSE IF r.offset = "Z" THEN RangeError ELSE r.date

\* Temporal.PlainDateTime.from: a date, midnight when no time is given, no Z.
PlainDateTimeOf(r) ==
    IF IsError(r) THEN r
    ELSE IF r.offset = "Z" THEN RangeError
    ELSE [date |-> r.date, time |-> [sod |-> r.sod, ns |-> r.ns]]

\* Temporal.PlainTime.from: a time, and no Z.
PlainTimeOf(r) ==
    IF IsError(r) THEN r
    ELSE IF r.offset = "Z" \/ ~r.hasTime THEN RangeError
    ELSE [sod |-> r.sod, ns |-> r.ns]

\* Temporal.Instant.from: a date, a time and a UTC offset.
InstantOf(r) ==
    IF IsError(r) THEN r
    ELSE IF ~r.hasTime \/ r.offset = "none" THEN RangeError
    ELSE Inst(ToEpochDay(r.date) * 86400 + r.sod - r.offSec, r.ns)

\* Temporal.ZonedDateTime.from: a zone annotation; a numeric offset must
\* be the zone's offset at that wall time, Z gives the exact instant.
ZonedDateTimeOf(r) ==
    IF IsError(r) THEN r
    ELSE IF r.zone = "none" THEN RangeError
    ELSE IF r.offset = "none"
    THEN Zdt(Inst(WallToEpochSec(ToEpochDay(r.date) * 86400 + r.sod, r.zone), r.ns), r.zone)
    ELSE IF r.offset = "Z"
    THEN Zdt(Inst(ToEpochDay(r.date) * 86400 + r.sod, r.ns), r.zone)
    ELSE IF OffsetAt(r.zone, ToEpochDay(r.date) * 86400 + r.sod - r.offSec) = r.offSec
    THEN Zdt(Inst(ToEpochDay(r.date) * 86400 + r.sod - r.offSec, r.ns), r.zone)
    ELSE RangeError

parsePlainDate(iso8601DateStr) == PlainDateOf(ScanDate(iso8601DateStr.chars))
parsePlainDateTime(iso8601DateTimeStr) == PlainDateTimeOf(ScanDate(iso8601DateTimeStr.chars))
parseZonedDateTime(iso8601DateTimeStr) == ZonedDateTimeOf(ScanDate(iso8601DateTimeStr.chars))
parseInstant(iso8601DateTimeStr) == InstantOf(ScanDate(iso8601DateTimeStr.chars))
parsePlainTime(timeStr) ==
    PlainTimeOf(IF IsError(ScanTimeOnly(timeStr.chars))
                THEN ScanDate(timeStr.chars) ELSE ScanTimeOnly(timeStr.chars))

\* An optional parser that turns a string it cannot read into undefined.
parseOptionalPlainDateLenient(iso8601DateStr) ==
    IF Falsy(iso8601DateStr) \/ IsError(parsePlainDate(iso8601DateStr))
    THEN Undefined ELSE parsePlainDate(iso8601DateStr)

parseOptionalPlainDate(iso8601DateStr) ==
    IF Falsy(iso8601DateStr) THEN Undefined ELSE parsePlainDate(iso8601DateStr)
parseOptionalPlainDateTime(iso8601DateTimeStr) ==
    IF Falsy(iso8601DateTimeStr) THEN Undefined ELSE parsePlainDateTime(iso8601DateTimeStr)
parseOptionalZonedDateTime(iso8601DateStr) ==
    IF Falsy(iso8601DateStr) THEN Undefined ELSE parseZonedDateTime(iso8601DateStr)
parseOptionalInstant(iso8601DateStr) ==
    IF Falsy(iso8601DateStr) THEN Undefined ELSE parseInstant(iso8601DateStr)
parseOptionalPlainTime(timeStr) ==
    IF Falsy(timeStr) THEN Undefined ELSE parsePlainTime(timeStr)

----------------------------------------------------------------------------
(* The fixed-pattern formatters of formatting.ts *)

Pad2(n) == <<DigitChar(n \div 10), DigitChar(n % 10)>>
Pad4(n) == Pad2(n \div 100) \o Pad2(n % 100)

\* YYYY-MM-DD, HH:MM and HH:MM:SS
DateChars(d) == Pad4(d.year) \o <<"-">> \o Pad2(d.month) \o <<"-">> \o Pad2(d.day)
MinuteChars(sod) == Pad2(sod \div 3600) \o <<":">> \o Pad2((sod % 3600) \div 60)
SecondChars(sod) == MinuteChars(sod) \o <<":">> \o Pad2(sod % 60)

\* The nine digits of a nanosecond count, and the fraction as toString
\* prints it: nothing for zero, otherwise without trailing zeros.
PowersOfTen == <<1, 10, 100, 1000, 10000, 100000, 1000000, 10000000, 100000000>>
NanoDigits(ns) == [i \in 1..9 |-> DigitChar((ns \div PowersOfTen[10 - i]) % 10)]
LastNonZero(digits) ==
    CHOOSE k \in 1..9 : digits[k] # "0" /\ \A j \in (k + 1)..9 : digits[j] = "0"
FractionChars(ns) ==
    IF ns = 0 THEN <<>>
    ELSE <<".">> \o SubSeq(NanoDigits(ns), 1, LastNonZero(NanoDigits(ns)))

\* date.toString({ smallestUnit: "minute" }) rounding to the nearest minute
\* in place of truncating.
formatPlainDateTimeRounded(date) ==
    Str(DateChars(AddDays(date.date, (date.time.sod + 30) \div 86400))
        \o <<"T">> \o MinuteChars(((date.time.sod + 30) % 86400)))

\* date.toString({ smallestUnit: "minute" }): seconds and fractions are cut.
formatPlainDateTime(date) ==
    Str(DateChars(date.date) \o <<"T">> \o MinuteChars(date.time.sod))

formatPlainDate(date) == Str(DateChars(date))

formatPlainTime(date) == Str(MinuteChars(date.sod))

\* instant.toString(): UTC, with Z and the fraction the instant has.
formatInstant(instant) ==
    Str(DateChars(FromEpochDay(instant.s \div 86400)) \o <<"T">>
        \o SecondChars(instant.s % 86400) \o FractionChars(instant.ns) \o <<"Z">>)

----------------------------------------------------------------------------
(* Parsing and formatting, applied to chosen strings *)

Kinds == {"PlainDate", "PlainDateTime", "ZonedDateTime", "Instant", "PlainTime"}

\* The parts strings are put together from: dates (two of them not in the
\* calendar), times of day with and without seconds and fractions (one not
\* on the clock), UTC offsets and zone annotations.
DateTexts == { DateChars(d) : d \in { Date(2024, 3, 20), Date(2024, 2, 29), Date(2021, 12, 31),
                                      Date(2024, 2, 30), Date(2024, 13, 1) } }
ClockTexts ==
    { MinuteChars(15 * 3600 + 30 * 60), Pad2(24) \o <<":">> \o Pad2(0) }
    \cup { SecondChars(t[1]) \o FractionChars(t[2]) :
             t \in { <<15 * 3600 + 30 * 60, 0>>, <<86399, 0>>,
                     <<14 * 3600 + 22 * 60 + 59, 123000000>>,
                     <<86399, 999999999>>, <<60, 500000000>> } }
TimeTexts == {<<>>} \cup { <<"T">> \o c : c \in ClockTexts }
OffsetTexts == { <<>>, <<"Z">>, <<"+", "0", "1", ":", "0", "0">>, <<"-", "0", "3", ":", "0", "0">> }
ZoneTexts == { <<>> } \cup { <<"[">> \o ZoneChars[z] \o <<"]">> : z \in {"UTC", "Europe/London"} }

ParseInputs ==
    { Str(d \o t \o o \o z) : d \in DateTexts, t \in TimeTexts, o \in OffsetTexts, z \in ZoneTexts }
    \cup { Str(c) : c \in ClockTexts }
    \cup { Str(<<"i", "n", "v", "a", "l", "i", "d">>), EmptyString, Null, Undefined }

parseBase(kind, x) ==
    CASE kind = "PlainDate" -> parsePlainDate(x)
      [] kind = "PlainDateTime" -> parsePlainDateTime(x)
      [] kind = "ZonedDateTime" -> parseZonedDateTime(x)
      [] kind = "Instant" -> parseInstant(x)
      [] kind = "PlainTime" -> parsePlainTime(x)

parseOptional(kind, x) ==
    CASE kind = "PlainDate" -> parseOptionalPlainDate(x)
      [] kind = "PlainDateTime" -> parseOptionalPlainDateTime(x)
      [] kind = "ZonedDateTime" -> parseOptionalZonedDateTime(x)
      [] kind = "Instant" -> parseOptionalInstant(x)
      [] kind = "PlainTime" -> parseOptionalPlainTime(x)

\* The fixed-pattern formatter of a kind of value.
formatParsed(kind, v) ==
    CASE kind = "PlainDate" -> formatPlainDate(v)
      [] kind = "PlainDateTime" -> formatPlainDateTime(v)
      [] kind = "Instant" -> formatInstant(v)
      [] kind = "PlainTime" -> formatPlainTime(v)

InitParse ==
    /\ env = FullHost
    /\ hostClock = HostStart
    /\ spyImpl = NoImpl
    /\ spyCalls = 0
    /\ spyDefined = FALSE
    /\ abd = [pc |-> "idle"]
    /\ last \in [op : {"args"}, kind : Kinds, input : ParseInputs]

\* parseX(input): the base parsers take strings only.
DoParse ==
    /\ last.op = "args" /\ ~IsNullish(last.input)
    /\ last' = [op |-> "parse", kind |-> last.kind, input |-> last.input,
                result |-> parseBase(last.kind, last.input)]
    /\ UNCHANGED <<hostClock, spyImpl, spyCalls, spyDefined, abd, env>>

\* parseOptionalX(input)
DoParseOptional ==
    /\ last.op = "args"
    /\ last' = [op |-> "parseOptional", kind |-> last.kind, input |-> last.input,
                result |-> parseOptional(last.kind, last.input)]
    /\ UNCHANGED <<hostClock, spyImpl, spyCalls, spyDefined, abd, env>>

\* formatX(parseX(input)), for a string parseX reads
DoFormatParsed ==
    /\ last.op = "parse" /\ last.kind # "ZonedDateTime" /\ ~IsError(last.result)
    /\ last' = [op |-> "format", kind |-> last.kind, input |-> last.input,
                parsed |-> last.result,
                result |-> formatParsed(last.kind, last.result)]
    /\ UNCHANGED <<hostClock, spyImpl, spyCalls, spyDefined, abd, env>>

NextParse ==
    \/ DoParse
    \/ DoParseOptional
    \/ DoFormatParsed

SpecParse == InitParse /\ [][NextParse]_vars

----------------------------------------------------------------------------
(* conversion.ts: Temporal values and the legacy Date *)

\* A legacy Date: an epoch offset in whole milliseconds, kept as whole
\* seconds and the millisecond of the second.
JSDate(sec, milli) == [s |-> sec, ms |-> milli]

\* The instant of an Instant or of a ZonedDateTime.
InstantOfValue(dt) == IF "inst" \in DOMAIN dt THEN dt.inst ELSE dt

\* dt.epochMilliseconds: the whole milliseconds of the epoch nanoseconds.
EpochMilliseconds(dt) ==
    JSDate(InstantOfValue(dt).s, InstantOfValue(dt).ns \div 1000000)

\* toJSDateUTC keeping whole seconds only.
toJSDateUTCSeconds(dt) == JSDate(InstantOfValue(dt).s, 0)

\* new Date(dt.epochMilliseconds)
toJSDateUTC(dt) == EpochMilliseconds(dt)

\* toTemporalInstant.call(date)
toInstant(date) == Inst(date.s, date.ms * 1000000)

toPlainDate(date, timezone) == ZdtToPlainDate(toZonedDateTimeISO(toInstant(date), timezone))

toZonedDateTimeUTC(date) == toZonedDateTimeISO(toInstant(date), "UTC")

\* date.toZonedDateTime({ timeZone: timezone }): the start of the day
plainDateToJSDate(date, timezone) ==
    toJSDateUTC(DateToZonedDateTime(date, timezone, PlainTimeMidnight))

\* plainDateTimeToJSDate anchoring the date-time to the zone it is given.
plainDateTimeToJSDateInZone(date, timezone) ==
    toJSDateUTC(DateToZonedDateTime(date.date, timezone, date.time))

\* date.toZonedDateTime("UTC") of a PlainDateTime: the timezone argument is
\* not used.
plainDateTimeToJSDate(date, timezone) ==
    toJSDateUTC(DateToZonedDateTime(date.date, "UTC", date.time))

plainDateTimeToOptionalJSDate(date, timezone) ==
    IF Falsy(date) THEN Undefined ELSE plainDateTimeToJSDate(date, timezone)

instantToPlainDate(date, timezone) == ZdtToPlainDate(toZonedDateTimeISO(date, timezone))

instantToPlainDateTime(date, timezone) ==
    [date |-> ZdtToPlainDate(toZonedDateTimeISO(date, timezone)),
     time |-> ZdtToPlainTime(toZonedDateTimeISO(date, timezone))]

instantToPlainTime(date, timezone) == ZdtToPlainTime(toZonedDateTimeISO(date, timezone))

\* Instants with and without a part below the millisecond, and legacy Dates.
ConvertSeconds == { EpochSec(2022, 5, 5, 10, 12, 13), EpochSec(2022, 5, 5, 22, 12, 13),
                    EpochSec(2024, 3, 17, 15, 0, 0), 0 }
ConvertNanos == { 0, 1, 999, 1000, 999999, 1000000, 1000001, 123000000,
                  123456000, 123456789, 999000000, 999999999 }
ConvertInstants == { Inst(sec, nano) : sec \in ConvertSeconds, nano \in ConvertNanos }
ConvertZoned == { Zdt(i, "Europe/London") : i \in ConvertInstants }
ConvertDates == { JSDate(sec, milli) : sec \in ConvertSeconds, milli \in {0, 1, 123, 999} }

\* Civil date-times: ordinary ones, one with a part below the millisecond,
\* one that Europe/London skips and one that America/Sao_Paulo repeats.
ConvertDateTimes ==
    { [date |-> Date(2024, 3, 17), time |-> Time(15, 0, 0, 0)],
      [date |-> Date(2022, 5, 5), time |-> Time(10, 12, 13, 123456789)],
      [date |-> Date(2024, 3, 31), time |-> Time(1, 30, 0, 0)],
      [date |-> Date(2018, 2, 17), time |-> Time(23, 30, 0, 999000000)],
      [date |-> Date(1970, 1, 1), time |-> Time(0, 0, 0, 0)] }

InitConvert ==
    /\ env = FullHost
    /\ hostClock = HostStart
    /\ spyImpl = NoImpl
    /\ spyCalls = 0
    /\ spyDefined = FALSE
    /\ abd = [pc |-> "idle"]
    /\ last \in [op : {"args"}, value : ConvertInstants \cup ConvertZoned \cup ConvertDates]
                \cup [op : {"args"}, value : ConvertDateTimes, timezone : Zones]

\* toInstant(toJSDateUTC(dt)) for an Instant or a ZonedDateTime
DoToJSDateAndBack ==
    /\ last.op = "args" /\ "timezone" \notin DOMAIN last /\ "ms" \notin DOMAIN last.value
    /\ last' = [op |-> "toJSDateAndBack", value |-> last.value,
                jsDate |-> toJSDateUTC(last.value),
                result |-> toInstant(toJSDateUTC(last.value))]
    /\ UNCHANGED <<hostClock, spyImpl, spyCalls, spyDefined, abd, env>>

\* toJSDateUTC(toInstant(date)) for a legacy Date
DoToInstantAndBack ==
    /\ last.op = "args" /\ "timezone" \notin DOMAIN last /\ "ms" \in DOMAIN last.value
    /\ last' = [op |-> "toInstantAndBack", value |-> last.value,
                instant |-> toInstant(last.value),
                result |-> toJSDateUTC(toInstant(last.value))]
    /\ UNCHANGED <<hostClock, spyImpl, spyCalls, spyDefined, abd, env>>

DoPlainDateTimeToJSDate ==
    /\ last.op = "args" /\ "timezone" \in DOMAIN last
    /\ last' = [op |-> "plainDateTimeToJSDate", value |-> last.value,
                timezone |-> last.timezone,
                result |-> plainDateTimeToJSDate(last.value, last.timezone)]
    /\ UNCHANGED <<hostClock, spyImpl, spyCalls, spyDefined, abd, env>>

DoPlainDateTimeToOptionalJSDate ==
    /\ last.op = "args" /\ "timezone" \in DOMAIN last
    /\ last' = [op |-> "plainDateTimeToOptionalJSDate", value |-> last.value,
                timezone |-> last.timezone,
                result |-> plainDateTimeToOptionalJSDate(last.value, last.timezone)]
    /\ UNCHANGED <<hostClock, spyImpl, spyCalls, spyDefined, abd, env>>

NextConvert ==
    \/ DoToJSDateAndBack
    \/ DoToInstantAndBack
    \/ DoPlainDateTimeToJSDate
    \/ DoPlainDateTimeToOptionalJSDate

SpecConvert == InitConvert /\ [][NextConvert]_vars

----------------------------------------------------------------------------
(* The locale formatters of formatting.ts *)

\* A part of a formatted date: left out, or a value in a style.
NoField == [omitted |-> TRUE]
Field(style, value) == [style |-> style, value |-> value]
Part(style, value) == IF style = "undefined" THEN NoField ELSE Field(style, value)

\* The options of a formatter: a style, or "undefined", for every field, and
\* the zone to format in ("undefined": the zone of the host).
DateTimeFormatOptions(weekday, year, month, day, hour, minute, timeZone) ==
    [weekday |-> weekday, year |-> year, month |-> month, day |-> day,
     hour |-> hour, minute |-> minute, timeZone |-> timeZone]

\* The fields of a ZonedDateTime that the options ask for.
PartsOf(options, zdt) ==
    [weekday |-> Part(options.weekday, DayOfWeek(ZdtToPlainDate(zdt))),
     year    |-> Part(options.year, ZdtToPlainDate(zdt).year),
     month   |-> Part(options.month, ZdtToPlainDate(zdt).month),
     day     |-> Part(options.day, ZdtToPlainDate(zdt).day),
     hour    |-> Part(options.hour, ZdtToPlainTime(zdt).sod \div 3600),
     minute  |-> Part(options.minute, (ZdtToPlainTime(zdt).sod % 3600) \div 60)]

\* new Intl.DateTimeFormat(locale, options).formatToParts(date): the legacy
\* Date is looked at in options.timeZone, or in the zone of the host.
FormatToParts(options, date) ==
    PartsOf(options,
            Zdt(toInstant(date),
                IF options.timeZone = "undefined" THEN env.hostZone ELSE options.timeZone))

\* ordinal(n): 1st, 2nd, 3rd, 4th, 11th, 12th, 13th, 21st, ...
OrdinalSuffix(n) ==
    IF (n % 100) \in 11..13 THEN "th"
    ELSE IF n % 10 = 1 THEN "st"
    ELSE IF n % 10 = 2 THEN "nd"
    ELSE IF n % 10 = 3 THEN "rd"
    ELSE "th"

\* The day part, if there is one, becomes its ordinal.
ordinalFormatForDay(parts) ==
    [parts EXCEPT !.day =
        IF parts.day = NoField THEN NoField
        ELSE [style |-> "ordinal", value |-> parts.day.value,
              suffix |-> OrdinalSuffix(parts.day.value)]]

formatPlainDateMonth(date) ==
    IF ~monthLongFormatter THEN UnsupportedDateTimeFormat
    ELSE FormatToParts(DateTimeFormatOptions("undefined", "undefined", "long", "undefined",
                                             "undefined", "undefined", "undefined"),
                       plainDateToJSDate(date, "UTC")).month

formatPlainDateShortMonth(date) ==
    IF ~monthShortFormatter THEN UnsupportedDateTimeFormat
    ELSE FormatToParts(DateTimeFormatOptions("undefined", "undefined", "short", "undefined",
                                             "undefined", "undefined", "undefined"),
                       plainDateToJSDate(date, "UTC")).month

formatFriendlyInstant(instant, timezone) ==
    IF ~IntlHas("DateTimeFormat") THEN NewDateTimeFormatError
    ELSE ordinalFormatForDay(
            FormatToParts(DateTimeFormatOptions("long", "numeric", "long", "numeric",
                                                "numeric", "numeric", timezone),
                          toJSDateUTC(instant)))

formatFriendlyPlainDate(date, timezone) ==
    IF ~IntlHas("DateTimeFormat") THEN NewDateTimeFormatError
    ELSE ordinalFormatForDay(
            FormatToParts(DateTimeFormatOptions("long", "numeric", "long", "numeric",
                                                "undefined", "undefined", timezone),
                          plainDateToJSDate(date, timezone)))

formatFriendlyPlainDateShort(date, options) ==
    IF ~IntlHas("DateTimeFormat") THEN NewDateTimeFormatError
    ELSE ordinalFormatForDay(
            FormatToParts(DateTimeFormatOptions(
                              IF options.excludeWeekday THEN "undefined" ELSE "short",
                              IF options.includeYear THEN "numeric" ELSE "undefined",
                              IF options.shortMonth THEN "short" ELSE "long",
                              "numeric", "undefined", "undefined", "undefined"),
                          plainDateToJSDate(date, "UTC")))

\* options.monthFormat ?? "long"
MonthFormatOf(options) ==
    IF options.monthFormat = "undefined" THEN "long" ELSE options.monthFormat

\* formatPlainDateRange leaving the first date's year out only when
\* includeYear is not set.
formatPlainDateRangeYearAlways(date1, date2, options) ==
    IF ~IntlHas("DateTimeFormat") THEN NewDateTimeFormatError
    ELSE [start |-> ordinalFormatForDay(
                      FormatToParts(DateTimeFormatOptions(
                                        "undefined",
                                        IF options.includeYear THEN "numeric" ELSE "undefined",
                                        IF date1.month = date2.month
                                        THEN "undefined" ELSE MonthFormatOf(options),
                                        "numeric", "undefined", "undefined", "undefined"),
                                    plainDateToJSDate(date1, "UTC"))),
          end   |-> ordinalFormatForDay(
                      FormatToParts(DateTimeFormatOptions(
                                        "undefined",
                                        IF options.includeYear THEN "numeric" ELSE "undefined",
                                        MonthFormatOf(options),
                                        "numeric", "undefined", "undefined", "undefined"),
                                    plainDateToJSDate(date2, "UTC")))]

\* `${start} - ${end}`: the two formatted dates.
formatPlainDateRange(date1, date2, options) ==
    IF ~IntlHas("DateTimeFormat") THEN NewDateTimeFormatError
    ELSE [start |-> ordinalFormatForDay(
                      FormatToParts(DateTimeFormatOptions(
                                        "undefined",
                                        IF date1.year = date2.year THEN "undefined"
                                        ELSE IF options.includeYear THEN "numeric"
                                        ELSE "undefined",
                                        IF date1.month = date2.month
                                        THEN "undefined" ELSE MonthFormatOf(options),
                                        "numeric", "undefined", "undefined", "undefined"),
                                    plainDateToJSDate(date1, "UTC"))),
          end   |-> ordinalFormatForDay(
                      FormatToParts(DateTimeFormatOptions(
                                        "undefined",
                                        IF options.includeYear THEN "numeric" ELSE "undefined",
                                        MonthFormatOf(options),
                                        "numeric", "undefined", "undefined", "undefined"),
                                    plainDateToJSDate(date2, "UTC")))]

formatFriendlyDateTime(date) ==
    IF ~IntlHas("DateTimeFormat") THEN NewDateTimeFormatError
    ELSE ordinalFormatForDay(
            FormatToParts(DateTimeFormatOptions("long", "numeric", "long", "numeric",
                                                "numeric", "numeric", "undefined"),
                          toJSDateUTC(date)))

formatInstantFriendlyDate(time, timezone) ==
    formatFriendlyDateTime(toZonedDateTimeISO(time, timezone))

formatRelativeIso8601DateTimeStr(datetime) ==
    IF IsError(parseInstant(datetime)) THEN parseInstant(datetime)
    ELSE formatRelativeInstant(parseInstant(datetime))

----------------------------------------------------------------------------
(* The formatters, applied to chosen values on chosen hosts *)

\* Hosts: west of, at and east of UTC, with the whole Intl object, with one
\* facility missing, and without an Intl object.
HostZones == {"UTC", "Europe/London", "America/Halifax", "Japan"}
Hosts ==
    { [hostZone |-> z, intlObject |-> TRUE, facilities |-> f] :
          z \in HostZones, f \in SUBSET IntlFacilities }
    \cup { [hostZone |-> z, intlObject |-> FALSE, facilities |-> {}] : z \in HostZones }

FormatInstants == { Inst(EpochSec(2024, 6, 12, 14, 22, 59), 123000000),
                    Inst(EpochSec(2024, 6, 30, 23, 30, 0), 0),
                    Inst(EpochSec(2024, 1, 1, 0, 30, 0), 0) }
FormatDates == { Date(2024, 6, 12), Date(2024, 1, 1), Date(2024, 6, 1), Date(2024, 12, 31) }
RangeStarts == { Date(2024, 6, 12), Date(2024, 6, 1), Date(2023, 6, 22) }
RangeEnds == { Date(2024, 6, 15), Date(2024, 7, 15), Date(2025, 7, 15), Date(2025, 6, 23) }
ShortOptions == [includeYear : BOOLEAN, excludeWeekday : BOOLEAN, shortMonth : BOOLEAN]
RangeOptions == [includeYear : BOOLEAN, monthFormat : {"undefined", "short"}]

\* The clock is fixed, as in formatting.spec.ts, for the relative formatters.
FormatNow == Inst(EpochSec(2022, 5, 5, 10, 12, 13), 0)

InitFormat ==
    /\ env \in Hosts
    /\ hostClock = HostStart
    /\ spyImpl = {FormatNow}
    /\ spyCalls = 0
    /\ spyDefined = TRUE
    /\ abd = [pc |-> "idle"]
    /\ last \in
         [op : {"args"}, kind : {"instant"}, instant : FormatInstants, timezone : HostZones]
         \cup [op : {"args"}, kind : {"date"}, date : FormatDates, timezone : {"UTC", "Japan"},
               options : ShortOptions]
         \cup [op : {"args"}, kind : {"range"}, date1 : RangeStarts, date2 : RangeEnds,
               options : RangeOptions]

\* A formatter was called with the arguments drawn: its name and what it
\* returned or threw.
Formatted(name, value) ==
    /\ last' = [last EXCEPT !.op = name] @@ [result |-> value]
    /\ UNCHANGED <<hostClock, spyImpl, spyCalls, spyDefined, abd, env>>

\* The same for a relative formatter, which reads the clock when it gets as
\* far as the cascade of units.
FormattedRelative(name, value) ==
    /\ last' = [last EXCEPT !.op = name] @@ [result |-> value]
    /\ spyCalls' = spyCalls + (IF IsError(last'.result) THEN 0 ELSE ClockReads(last'.result))
    /\ UNCHANGED <<hostClock, spyImpl, spyDefined, abd, env>>

InstantArgs == last.op = "args" /\ last.kind = "instant"
DateArgs == last.op = "args" /\ last.kind = "date"
RangeArgs == last.op = "args" /\ last.kind = "range"

DoFormatFriendlyInstant ==
    InstantArgs /\ Formatted("formatFriendlyInstant",
                             formatFriendlyInstant(last.instant, last.timezone))

DoFormatFriendlyDateTime ==
    InstantArgs /\ Formatted("formatFriendlyDateTime",
                             formatFriendlyDateTime(toZonedDateTimeISO(last.instant, last.timezone)))

DoFormatInstantFriendlyDate ==
    InstantArgs /\ Formatted("formatInstantFriendlyDate",
                             formatInstantFriendlyDate(last.instant, last.timezone))

DoFormatRelativeInstantOnHost ==
    InstantArgs /\ FormattedRelative("formatRelativeInstant", formatRelativeInstant(last.instant))

DoFormatRelativeIso8601DateTimeStr ==
    InstantArgs /\ FormattedRelative("formatRelativeIso8601DateTimeStr",
                                     formatRelativeIso8601DateTimeStr(formatInstant(last.instant)))

DoFormatInstant ==
    InstantArgs /\ Formatted("formatInstant", formatInstant(last.instant))

DoFormatPlainDateTime ==
    InstantArgs /\ Formatted("formatPlainDateTime",
                             formatPlainDateTime(instantToPlainDateTime(last.instant, last.timezone)))

DoFormatPlainTime ==
    InstantArgs /\ Formatted("formatPlainTime",
                             formatPlainTime(instantToPlainTime(last.instant, last.timezone)))

DoFormatPlainDate ==
    DateArgs /\ Formatted("formatPlainDate", formatPlainDate(last.date))

DoFormatPlainDateMonth ==
    DateArgs /\ Formatted("formatPlainDateMonth", formatPlainDateMonth(last.date))

DoFormatPlainDateShortMonth ==
    DateArgs /\ Formatted("formatPlainDateShortMonth", formatPlainDateShortMonth(last.date))

DoFormatFriendlyPlainDate ==
    DateArgs /\ Formatted("formatFriendlyPlainDate",
                          formatFriendlyPlainDate(last.date, last.timezone))

DoFormatFriendlyPlainDateShort ==
    DateArgs /\ Formatted("formatFriendlyPlainDateShort",
                          formatFriendlyPlainDateShort(last.date, last.options))

DoFormatPlainDateRange ==
    RangeArgs /\ Formatted("formatPlainDateRange",
                           formatPlainDateRange(last.date1, last.date2, last.options))

NextFormat ==
    \/ DoFormatFriendlyInstant
    \/ DoFormatFriendlyDateTime
    \/ DoFormatInstantFriendlyDate
    \/ DoFormatRelativeInstantOnHost
    \/ DoFormatRelativeIso8601DateTimeStr
    \/ DoFormatInstant
    \/ DoFormatPlainDateTime
    \/ DoFormatPlainTime
    \/ DoFormatPlainDate
    \/ DoFormatPlainDateMonth
    \/ DoFormatPlainDateShortMonth
    \/ DoFormatFriendlyPlainDate
    \/ DoFormatFriendlyPlainDateShort
    \/ DoFormatPlainDateRange

SpecFormat == InitFormat /\ [][NextFormat]_vars

----------------------------------------------------------------------------
(* The optional conversions and formatters *)

\* zonedDateTime.toLocaleString([], options): the wall time in the zone of
\* the value itself, in the styles asked for.
ToLocaleTimeString(zdt, style, second, hourCycle) ==
    [hour      |-> Field(style, ZdtToPlainTime(zdt).sod \div 3600),
     minute    |-> Field(style, (ZdtToPlainTime(zdt).sod % 3600) \div 60),
     second    |-> Part(second, ZdtToPlainTime(zdt).sod % 60),
     hourCycle |-> hourCycle]

formatInstantTime(time, timezone) ==
    ToLocaleTimeString(toZonedDateTimeISO(time, timezone), "2-digit", "undefined", "locale")

formatInstantTimeWithSeconds(time, timezone) ==
    ToLocaleTimeString(toZonedDateTimeISO(time, timezone), "2-digit", "2-digit", "locale")

formatInstantTime24h(time, timezone) ==
    ToLocaleTimeString(toZonedDateTimeISO(time, timezone), "2-digit", "undefined", "h23")

formatZonedDateTimeTime(date) ==
    ToLocaleTimeString(date, "numeric", "undefined", "locale")

formatIso8601ToTime(time, timezone) ==
    IF IsError(parseInstant(time)) THEN parseInstant(time)
    ELSE formatInstantTime(parseInstant(time), timezone)

formatJSDate(date, timezone) == Str(DateChars(toPlainDate(date, timezone)))

toOptionalJSDateUTC(dt) == IF Falsy(dt) THEN Undefined ELSE toJSDateUTC(dt)
toOptionalPlainDate(date, timezone) ==
    IF Falsy(date) THEN Undefined ELSE toPlainDate(date, timezone)
toOptionalInstant(date) == IF Falsy(date) THEN Undefined ELSE toInstant(date)
toOptionalZonedDateTimeUTC(date) ==
    IF Falsy(date) THEN Undefined ELSE toZonedDateTimeUTC(date)
plainDateToOptionalJSDate(date, timezone) ==
    IF Falsy(date) THEN Undefined ELSE plainDateToJSDate(date, timezone)
instantToOptionalPlainDate(date, timezone) ==
    IF Falsy(date) THEN Undefined ELSE instantToPlainDate(date, timezone)

formatOptionalPlainDateTime(date) ==
    IF Falsy(date) THEN Undefined ELSE formatPlainDateTime(date)
formatOptionalPlainDate(date) == IF Falsy(date) THEN Undefined ELSE formatPlainDate(date)
formatOptionalJSDate(date, timezone) ==
    IF Falsy(date) THEN Undefined ELSE formatJSDate(date, timezone)
formatOptionalPlainTime(time) == IF Falsy(time) THEN Undefined ELSE formatPlainTime(time)
formatOptionalRelativeIso8601DateTimeStr(datetime) ==
    IF Falsy(datetime) THEN Undefined ELSE formatRelativeIso8601DateTimeStr(datetime)

\* formatOptionalIso8601ToTime answering undefined where the source answers
\* null.
formatOptionalIso8601ToTimeUndefined(time, timezone) ==
    IF Falsy(time) THEN Undefined
    ELSE IF IsError(parseInstant(time)) THEN parseInstant(time)
    ELSE formatInstantTime(parseInstant(time), timezone)

formatOptionalIso8601ToTime(time, timezone) ==
    IF Falsy(time) THEN Null
    ELSE IF IsError(parseInstant(time)) THEN parseInstant(time)
    ELSE formatInstantTime(parseInstant(time), timezone)

formatOptionalIso8601ToTimeWithSeconds(time, timezone) ==
    IF Falsy(time) THEN Null
    ELSE IF IsError(parseInstant(time)) THEN parseInstant(time)
    ELSE formatInstantTimeWithSeconds(parseInstant(time), timezone)

formatOptionalInstantTimeWithSeconds(time, timezone) ==
    IF Falsy(time) THEN Undefined ELSE formatInstantTimeWithSeconds(time, timezone)
formatOptionalInstantTime24h(time, timezone) ==
    IF Falsy(time) THEN Undefined ELSE formatInstantTime24h(time, timezone)
formatOptionalZonedDateTime(date) ==
    IF Falsy(date) THEN Undefined ELSE formatZonedDateTimeTime(date)
formatOptionalInstant(instant, timezone) ==
    IF Falsy(instant) THEN Undefined ELSE formatInstantTime(instant, timezone)
formatOptionalZonedDateTimeTime(date) ==
    IF Falsy(date) THEN Undefined ELSE formatZonedDateTimeTime(date)

----------------------------------------------------------------------------
(* The optional variants, applied to absent and to present values *)

OptionalOfJSDate ==
    {"toOptionalPlainDate", "toOptionalInstant", "toOptionalZonedDateTimeUTC",
     "formatOptionalJSDate"}
OptionalOfPlainDate ==
    {"plainDateToOptionalJSDate", "formatOptionalPlainDate"}
OptionalOfPlainDateTime ==
    {"plainDateTimeToOptionalJSDate", "formatOptionalPlainDateTime"}
OptionalOfPlainTime == {"formatOptionalPlainTime"}
OptionalOfInstant ==
    {"instantToOptionalPlainDate", "formatOptionalInstantTimeWithSeconds",
     "formatOptionalInstantTime24h", "formatOptionalInstant"}
OptionalOfZonedDateTime ==
    {"formatOptionalZonedDateTime", "formatOptionalZonedDateTimeTime"}
OptionalOfString ==
    {"formatOptionalRelativeIso8601DateTimeStr", "formatOptionalIso8601ToTime",
     "formatOptionalIso8601ToTimeWithSeconds"}
\* toOptionalJSDateUTC takes an Instant or a ZonedDateTime.
OptionalFunctions ==
    {"toOptionalJSDateUTC"} \cup OptionalOfJSDate \cup OptionalOfPlainDate
    \cup OptionalOfPlainDateTime \cup OptionalOfPlainTime \cup OptionalOfInstant
    \cup OptionalOfZonedDateTime \cup OptionalOfString

OptionalZones == {"UTC", "Europe/London"}
OptionalInstants == { Inst(EpochSec(2024, 6, 12, 14, 22, 59), 123000000),
                      Inst(EpochSec(2022, 5, 5, 23, 30, 0), 0) }
OptionalZoned == { Zdt(i, z) : i \in OptionalInstants, z \in {"UTC", "Japan"} }
OptionalTexts == { EmptyString, Str(<<"n", "o">>) }
                 \cup { formatInstant(i) : i \in OptionalInstants }

\* The values a function can be handed besides null and undefined.
PresentInputs(f) ==
    IF f = "toOptionalJSDateUTC" THEN OptionalInstants \cup OptionalZoned
    ELSE IF f \in OptionalOfJSDate THEN { toJSDateUTC(i) : i \in OptionalInstants }
    ELSE IF f \in OptionalOfPlainDate THEN FormatDates
    ELSE IF f \in OptionalOfPlainDateTime
        THEN { instantToPlainDateTime(i, "UTC") : i \in OptionalInstants }
    ELSE IF f \in OptionalOfPlainTime THEN { Time(15, 22, 59, 0), Time(0, 0, 0, 0) }
    ELSE IF f \in OptionalOfInstant THEN OptionalInstants
    ELSE IF f \in OptionalOfZonedDateTime THEN OptionalZoned
    ELSE OptionalTexts

\* The optional function of that name.
callOptional(f, x, timezone) ==
    CASE f = "toOptionalJSDateUTC" -> toOptionalJSDateUTC(x)
      [] f = "toOptionalPlainDate" -> toOptionalPlainDate(x, timezone)
      [] f = "toOptionalInstant" -> toOptionalInstant(x)
      [] f = "toOptionalZonedDateTimeUTC" -> toOptionalZonedDateTimeUTC(x)
      [] f = "plainDateToOptionalJSDate" -> plainDateToOptionalJSDate(x, timezone)
      [] f = "plainDateTimeToOptionalJSDate" -> plainDateTimeToOptionalJSDate(x, timezone)
      [] f = "instantToOptionalPlainDate" -> instantToOptionalPlainDate(x, timezone)
      [] f = "formatOptionalPlainDateTime" -> formatOptionalPlainDateTime(x)
      [] f = "formatOptionalPlainDate" -> formatOptionalPlainDate(x)
      [] f = "formatOptionalJSDate" -> formatOptionalJSDate(x, timezone)
      [] f = "formatOptionalPlainTime" -> formatOptionalPlainTime(x)
      [] f = "formatOptionalRelativeIso8601DateTimeStr"
            -> formatOptionalRelativeIso8601DateTimeStr(x)
      [] f = "formatOptionalIso8601ToTime" -> formatOptionalIso8601ToTime(x, timezone)
      [] f = "formatOptionalIso8601ToTimeWithSeconds"
            -> formatOptionalIso8601ToTimeWithSeconds(x, timezone)
      [] f = "formatOptionalInstantTimeWithSeconds"
            -> formatOptionalInstantTimeWithSeconds(x, timezone)
      [] f = "formatOptionalInstantTime24h" -> formatOptionalInstantTime24h(x, timezone)
      [] f = "formatOptionalZonedDateTime" -> formatOptionalZonedDateTime(x)
      [] f = "formatOptionalInstant" -> formatOptionalInstant(x, timezone)
      [] f = "formatOptionalZonedDateTimeTime" -> formatOptionalZonedDateTimeTime(x)

\* The function without the absent case that the optional one of that name
\* hands a present value to.
callCounterpart(f, x, timezone) ==
    CASE f = "toOptionalJSDateUTC" -> toJSDateUTC(x)
      [] f = "toOptionalPlainDate" -> toPlainDate(x, timezone)
      [] f = "toOptionalInstant" -> toInstant(x)
      [] f = "toOptionalZonedDateTimeUTC" -> toZonedDateTimeUTC(x)
      [] f = "plainDateToOptionalJSDate" -> plainDateToJSDate(x, timezone)
      [] f = "plainDateTimeToOptionalJSDate" -> plainDateTimeToJSDate(x, timezone)
      [] f = "instantToOptionalPlainDate" -> instantToPlainDate(x, timezone)
      [] f = "formatOptionalPlainDateTime" -> formatPlainDateTime(x)
      [] f = "formatOptionalPlainDate" -> formatPlainDate(x)
      [] f = "formatOptionalJSDate" -> formatJSDate(x, timezone)
      [] f = "formatOptionalPlainTime" -> formatPlainTime(x)
      [] f = "formatOptionalRelativeIso8601DateTimeStr" -> formatRelativeIso8601DateTimeStr(x)
      [] f = "formatOptionalIso8601ToTime" -> formatIso8601ToTime(x, timezone)
      [] f = "formatOptionalIso8601ToTimeWithSeconds"
            -> IF IsError(parseInstant(x)) THEN parseInstant(x)
               ELSE formatInstantTimeWithSeconds(parseInstant(x), timezone)
      [] f = "formatOptionalInstantTimeWithSeconds" -> formatInstantTimeWithSeconds(x, timezone)
      [] f = "formatOptionalInstantTime24h" -> formatInstantTime24h(x, timezone)
      [] f = "formatOptionalZonedDateTime" -> formatZonedDateTimeTime(x)
      [] f = "formatOptionalInstant" -> formatInstantTime(x, timezone)
      [] f = "formatOptionalZonedDateTimeTime" -> formatZonedDateTimeTime(x)

InitOptional ==
    /\ env = FullHost
    /\ hostClock = HostStart
    /\ spyImpl = {FormatNow}
    /\ spyCalls = 0
    /\ spyDefined = TRUE
    /\ abd = [pc |-> "idle"]
    /\ \E f \in OptionalFunctions, z \in OptionalZones :
          \E x \in {Null, Undefined} \cup PresentInputs(f) :
              last = [op |-> "args", f |-> f, input |-> x, timezone |-> z]

\* A function was called with the input drawn; a relative formatter that
\* got as far as the cascade of units has read the clock.
Called(name, value) ==
    /\ last' = [last EXCEPT !.op = name] @@ [result |-> value]
    /\ spyCalls' = spyCalls + (IF "phrase" \in DOMAIN last'.result
                               THEN ClockReads(last'.result) ELSE 0)
    /\ UNCHANGED <<hostClock, spyImpl, spyDefined, abd, env>>

DoCallOptional ==
    /\ last.op = "args"
    /\ Called("optional", callOptional(last.f, last.input, last.timezone))

\* The non-optional function takes no null or undefined.
DoCallCounterpart ==
    /\ last.op = "args"
    /\ ~IsNullish(last.input)
    /\ Called("counterpart", callCounterpart(last.f, last.input, last.timezone))

NextOptional ==
    \/ DoCallOptional
    \/ DoCallCounterpart

SpecOptional == InitOptional /\ [][NextOptional]_vars

----------------------------------------------------------------------------
(* Properties of the clock and of the predicates that read it *)

\* The instant a call found installed, and the calendar date of an instant in a zone.
FixedInstant(call) == CHOOSE i \in call.clock.mock : TRUE
DateIn(i, tz) == FromEpochDay((i.s + OffsetAt(tz, i.s)) \div 86400)

\* C5: with the clock fixed, isTomorrow(d, tz) is isToday(d - 1 day, tz) and holds
\* exactly when d is todayLocal(tz) + 1 day; isYesterday(d, tz) is
\* isToday(d + 1 day, tz) and holds exactly when d is todayLocal(tz) - 1 day.
C5_TomorrowYesterday ==
    (last.op \in {"isTomorrow", "isYesterday"} /\ last.clock.mock # {}) =>
        LET today == DateIn(FixedInstant(last), last.tz)
        IN  /\ last.op = "isTomorrow" =>
                /\ last.result = (ToEpochDay(last.date) - 1 = ToEpochDay(today))
                /\ last.result = (last.date = AddDays(today, 1))
            /\ last.op = "isYesterday" =>
                /\ last.result = (ToEpochDay(last.date) + 1 = ToEpochDay(today))
                /\ last.result = (last.date = AddDays(today, -1))

\* C5 witness: under a fixed clock a date was found to be tomorrow in a zone
\* whose local date differs from the UTC date.
C5_Witness ==
    /\ last.op = "isTomorrow"
    /\ last.clock.mock # {}
    /\ last.result = TRUE
    /\ last.tz = "America/Halifax"
    /\ last.date = Date(2022, 7, 9)

\* C6: after mockNow(i) and then unmockNow(), now(), nowLocal and todayLocal
\* give the host clock's current instant again.
C6_ClockRestored ==
    [][(last.op = "unmockNow" /\ last.result = "ok") =>
          /\ last'.op = "now" => last'.result = Inst(hostClock', 0)
          /\ last'.op = "nowLocal" => last'.result.inst = Inst(hostClock', 0)
          /\ last'.op = "todayLocal" =>
                last'.result = DateIn(Inst(hostClock', 0), last'.tz)]_vars

\* C7: while a fixed instant i is installed, now() is i, nowLocal(tz) is the
\* zoned date-time of i in tz and todayLocal(tz) the calendar date of i in tz.
C7_SingleSource ==
    (last.op \in {"now", "nowLocal", "todayLocal"} /\ last.clock.mock # {}) =>
        LET i == FixedInstant(last)
        IN  /\ last.op = "now" => last.result = i
            /\ last.op = "nowLocal" => last.result.inst = i /\ last.result.tz = last.tz
            /\ last.op = "todayLocal" => last.result = DateIn(i, last.tz)

\* C7 witness: nowLocal was called in Japan while the clock was fixed at an
\* instant that differs from the host clock.
C7_Witness ==
    /\ last.op = "nowLocal"
    /\ last.clock.mock # {}
    /\ last.tz = "Japan"
    /\ last.result.inst # Inst(last.clock.host, 0)

----------------------------------------------------------------------------
(* Properties of the calculations and of the interval check *)

\* Strictly earlier on the timeline.
Earlier(a, b) == a.s < b.s \/ (a.s = b.s /\ a.ns < b.ns)

\* C3: areIntervalsOverlapping(i1, i2) is true exactly when i1.start is strictly
\* before i2.end and i2.start strictly before i1.end; intervals that only
\* touch do not overlap.
C3_HalfOpenOverlap ==
    last.op = "areIntervalsOverlapping" =>
        LET i1 == last.interval1
            i2 == last.interval2
        IN  /\ last.result = (Earlier(i1.start, i2.end) /\ Earlier(i2.start, i1.end))
            /\ (i1.end = i2.start \/ i2.end = i1.start) => last.result = FALSE

\* C3 witness: two well-formed intervals that touch were reported as not overlapping.
C3_Witness ==
    /\ last.op = "areIntervalsOverlapping"
    /\ Earlier(last.interval1.start, last.interval1.end)
    /\ Earlier(last.interval2.start, last.interval2.end)
    /\ last.interval1.end = last.interval2.start
    /\ last.result = FALSE

\* 1970-01-05, epoch day 4, was a Monday.
IsMonday(date) == (ToEpochDay(date) - 4) % 7 = 0
IsSunday(date) == (ToEpochDay(date) - 3) % 7 = 0

\* C8: startOfWeek(d) = d - (dayOfWeek - 1) days is the Monday and
\* endOfWeek(d) = d + (7 - dayOfWeek) days the Sunday of d's ISO week:
\* startOfWeek(d) <= d <= endOfWeek(d), six days apart.
C8_WeekBounds ==
    /\ last.op = "startOfWeek" =>
        /\ IsMonday(last.result)
        /\ ToEpochDay(last.result) = ToEpochDay(last.date) - (DayOfWeek(last.date) - 1)
        /\ ToEpochDay(last.result) <= ToEpochDay(last.date)
        /\ ToEpochDay(last.date) - ToEpochDay(last.result) <= 6
        /\ DayOfWeek(last.result) = 1
    /\ last.op = "endOfWeek" =>
        /\ IsSunday(last.result)
        /\ ToEpochDay(last.result) = ToEpochDay(last.date) + (7 - DayOfWeek(last.date))
        /\ ToEpochDay(last.date) <= ToEpochDay(last.result)
        /\ ToEpochDay(last.result) = ToEpochDay(startOfWeek(last.date)) + 6
        /\ DayOfWeek(last.result) = 7

\* C8 witness: the week of Sunday 2023-01-01 starts in the previous year.
C8_Witness ==
    /\ last.op = "startOfWeek"
    /\ last.date = Date(2023, 1, 1)
    /\ last.result = Date(2022, 12, 26)

\* C9: startOfMonth(d) is day 1 and endOfMonth(d) the last day of d's month and
\* year, for every month length (2022-02-15 -> 2022-02-28, 2024-02-15 -> 2024-02-29).
C9_MonthBounds ==
    /\ last.op = "startOfMonth" =>
        /\ last.result = Date(last.date.year, last.date.month, 1)
    /\ last.op = "endOfMonth" =>
        /\ last.result.year = last.date.year
        /\ last.result.month = last.date.month
        /\ last.result.day = DaysInMonth(last.date)
        /\ FromEpochDay(ToEpochDay(last.result) + 1).day = 1
        /\ last.date = Date(2022, 2, 15) => last.result = Date(2022, 2, 28)
        /\ last.date = Date(2024, 2, 15) => last.result = Date(2024, 2, 29)

\* C9 witness: the end of February in a leap year.
C9_Witness ==
    /\ last.op = "endOfMonth"
    /\ last.date = Date(2024, 2, 15)
    /\ last.result = Date(2024, 2, 29)

\* The instant one nanosecond later.
PlusOneNano(i) == IF i.ns = 999999999 THEN Inst(i.s + 1, 0) ELSE Inst(i.s, i.ns + 1)

\* C10: startOfDay(d, tz) is 00:00:00.000000000 and endOfDay(d, tz) is
\* 23:59:59.999999999 of d in tz; startOfDay is not after endOfDay, and
\* endOfDay(d, tz) is exactly one nanosecond before startOfDay(d + 1 day, tz).
C10_DayBounds ==
    /\ last.op = "startOfDay" =>
        /\ LocalSec(last.result.inst, last.tz) = ToEpochDay(last.date) * 86400
        /\ last.result.inst.ns = 0
        /\ last.result.tz = last.tz
    /\ last.op = "endOfDay" =>
        /\ LocalSec(last.result.inst, last.tz) = ToEpochDay(last.date) * 86400 + 86399
        /\ last.result.inst.ns = 999999999
        /\ last.result.tz = last.tz
        /\ Earlier(startOfDay(last.date, last.tz).inst, last.result.inst)
        /\ PlusOneNano(last.result.inst) = startOfDay(AddDays(last.date, 1), last.tz).inst

----------------------------------------------------------------------------
(* Properties of addBusinessDays *)

\* The days after `from`, up to and including `to`, that satisfy the predicate.
BusinessDaysBetween(pred, from, to) ==
    { e \in (ToEpochDay(from) + 1)..ToEpochDay(to) : isBusinessDay(pred, FromEpochDay(e)) }

\* C1: for n >= 1 the result of addBusinessDays(date, n, isBusinessDay) is the
\* n-th date strictly after `date` that satisfies the predicate, whether or not
\* `date` itself does.
C1_NthBusinessDay ==
    (abd.pc = "done" /\ abd.n >= 1) =>
        /\ isBusinessDay(abd.pred, abd.next)
        /\ ToEpochDay(abd.next) > ToEpochDay(abd.date)
        /\ Cardinality(BusinessDaysBetween(abd.pred, abd.date, abd.next)) = abd.n
        /\ (abd.pred = "weekdays" /\ abd.date = Date(2022, 8, 5) /\ abd.n = 1)
              => abd.next = Date(2022, 8, 8)
        /\ (abd.pred = "weekdays" /\ abd.date = Date(2022, 8, 5) /\ abd.n = 3)
              => abd.next = Date(2022, 8, 10)
        /\ (abd.pred = "weekdays" /\ abd.date = Date(2022, 8, 3) /\ abd.n = 2)
              => abd.next = Date(2022, 8, 5)

\* C1 witness: three business days from a Saturday, over a weekend and two holidays.
C1_Witness ==
    /\ abd.pc = "done"
    /\ abd.pred = "holidays"
    /\ abd.date = Date(2022, 8, 6)
    /\ abd.n = 3
    /\ abd.next = Date(2022, 8, 12)

\* C2: for n <= 0 addBusinessDays returns `date` unchanged, business day or
\* not, without ever calling the predicate.
C2_NoOpForNonPositive ==
    (abd.pc # "idle" /\ abd.n <= 0) =>
        /\ abd.next = abd.date
        /\ abd.calls = 0
        /\ abd.pc \in {"for", "done"}

\* C2 witness: a negative n on a Saturday returned the Saturday.
C2_Witness ==
    /\ abd.pc = "done"
    /\ abd.n < 0
    /\ abd.date = Date(2022, 8, 6)
    /\ abd.next = abd.date
    /\ abd.pred = "weekdays"

----------------------------------------------------------------------------
(* Properties of formatRelativeInstant *)

\* Whole seconds between the instant and the fixed now, and which way.
SecondsApart(instant, fixed) ==
    IF Earlier(instant, fixed)
    THEN fixed.s - instant.s - (IF fixed.ns < instant.ns THEN 1 ELSE 0)
    ELSE instant.s - fixed.s - (IF instant.ns < fixed.ns THEN 1 ELSE 0)


\* C4: with the clock fixed, formatRelativeInstant walks years, months, weeks,
\* days, hours, minutes, seconds, truncates each total toward zero, renders the
\* first unit whose truncated total is non-zero with that signed number
\* (negative 'ago', positive 'in'), and renders 'now' only when every unit
\* truncates to zero: 2 days 10 hours ago gives -2 days, 53 minutes 51
\* seconds ago gives -53 minutes.
C4_RelativeCascade ==
    last.op = "formatRelativeInstant" =>
        LET r     == last.result
            fixed == CHOOSE i \in spyImpl : TRUE
            past  == Earlier(last.instant, fixed)
            S     == SecondsApart(last.instant, fixed)
            Signed(k) == IF past THEN 0 - k ELSE k
            d     == Since(last.instant, fixed)
            zdt   == Zdt(fixed, "UTC")
        IN  /\ (r.phrase = "now") = (S = 0)
            /\ r.phrase = "now" => (r.num = 0 /\ r.unit = "seconds")
            /\ r.phrase # "now" =>
                /\ r.num # 0
                /\ (r.phrase = "ago") = past
                /\ (r.num < 0) = past
                \* the number is the truncated total of the unit, and every
                \* larger unit truncates to zero
                /\ \A k \in 1..Len(Units) :
                      k < UnitNumber(r.unit) =>
                          Abs(Total(d, Units[k], zdt).secs) < Total(d, Units[k], zdt).den
                /\ Abs(r.num) * Total(d, r.unit, zdt).den <= Total(d, r.unit, zdt).secs
                /\ (Abs(r.num) + 1) * Total(d, r.unit, zdt).den > Total(d, r.unit, zdt).secs
                \* the units of fixed length, counted on the timeline
                /\ r.unit = "seconds" => (S < 60 /\ r.num = Signed(S))
                /\ r.unit = "minutes" => (S >= 60 /\ S < 3600 /\ r.num = Signed(S \div 60))
                /\ r.unit = "hours" => (S >= 3600 /\ S < 86400 /\ r.num = Signed(S \div 3600))
                /\ r.unit = "days" => (S >= 86400 /\ S < 604800 /\ r.num = Signed(S \div 86400))
                /\ r.unit = "weeks" => (S >= 604800 /\ r.num = Signed(S \div 604800))
                \* the calendar units: a month has 28 to 31 days, a year 365 or 366
                /\ r.unit = "months" => (S \div 86400 >= 28 * Abs(r.num)
                                          /\ S \div 86400 < 31 * (Abs(r.num) + 1))
                /\ r.unit = "years" => (S \div 86400 >= 365 * Abs(r.num)
                                         /\ S \div 86400 < 366 * (Abs(r.num) + 1))
            /\ (fixed.s - last.instant.s = 2 * 86400 + 10 * 3600 /\ last.instant.ns = 0)
                  => r = [phrase |-> "ago", num |-> 0 - 2, unit |-> "days"]
            /\ (fixed.s - last.instant.s = 53 * 60 + 51 /\ last.instant.ns = 0)
                  => r = [phrase |-> "ago", num |-> 0 - 53, unit |-> "minutes"]

\* C4 witness: 53 minutes 51 seconds in the past was rendered as 53 minutes ago.
C4_Witness ==
    /\ last.op = "formatRelativeInstant"
    /\ spyImpl = {Inst(EpochSec(2022, 5, 5, 10, 12, 13), 0)}
    /\ last.instant = Inst(EpochSec(2022, 5, 5, 9, 18, 22), 0)
    /\ last.result = [phrase |-> "ago", num |-> 0 - 53, unit |-> "minutes"]

----------------------------------------------------------------------------
(* Properties of the order and equality predicates *)

\* A call of the three predicates of one kind on twice the same operand.
SameOperand ==
    /\ last.op \in {"compareDates", "compareTimes", "compareInstants"}
    /\ last.a = last.b

\* C11: the strict-order predicates are irreflexive and the equality
\* predicates reflexive: on a date, a time or an instant compared with
\* itself, is...After and is...Before are false and is...Equal is true.
C11_ReflexiveIrreflexive ==
    SameOperand => (last.equal /\ ~last.after /\ ~last.before)

\* C11 witness: the three date predicates were applied to 2022-07-31 and
\* itself.
C11_Witness ==
    /\ last.op = "compareDates"
    /\ last.a = Date(2022, 7, 31)
    /\ last.b = Date(2022, 7, 31)
    /\ last.equal

\* C12: isOptionalDateEqual and isOptionalInstantEqual return true when both
\* operands are absent (null or undefined, in any combination), false when
\* exactly one is absent, and otherwise what isDateEqual / isInstantEqual
\* return; on absent input they return a boolean and never throw.
C12_OptionalEquality ==
    last.op \in {"isOptionalDateEqual", "isOptionalInstantEqual"} =>
        /\ last.result \in BOOLEAN
        /\ (IsNullish(last.a) /\ IsNullish(last.b)) => last.result = TRUE
        /\ (IsNullish(last.a) # IsNullish(last.b)) => last.result = FALSE
        /\ (~IsNullish(last.a) /\ ~IsNullish(last.b)) =>
              last.result = (IF last.op = "isOptionalDateEqual"
                             THEN isDateEqual(last.a, last.b)
                             ELSE isInstantEqual(last.a, last.b))

\* C12 witness: a date compared with undefined gave false.
C12_Witness ==
    /\ last.op = "isOptionalDateEqual"
    /\ last.a = Date(2022, 7, 31)
    /\ last.b = Undefined
    /\ last.result = FALSE

----------------------------------------------------------------------------
(* Properties of the parsers and of the fixed-pattern formatters *)

\* C13: each optional parser returns undefined, without failing, for null,
\* undefined and the empty string, and for every non-empty string does what
\* its base parser does: the same value for a string the base parser reads,
\* the same parse error for a malformed one, never undefined.
C13_OptionalParsers ==
    last.op = "parseOptional" =>
        /\ Falsy(last.input) => last.result = Undefined
        /\ ~Falsy(last.input) =>
              /\ last.result = parseBase(last.kind, last.input)
              /\ last.result # Undefined
        /\ last.input = Str(<<"i", "n", "v", "a", "l", "i", "d">>) => last.result = RangeError
        /\ (last.kind = "PlainDate" /\ last.input = Str(DateChars(Date(2024, 2, 30))))
              => last.result = RangeError
        /\ (last.kind = "PlainDate" /\ last.input = Str(DateChars(Date(2024, 3, 20))))
              => last.result = Date(2024, 3, 20)

\* C13 witness: parseOptionalPlainDate failed on a malformed string.
C13_Witness ==
    /\ last.op = "parseOptional"
    /\ last.kind = "PlainDate"
    /\ last.input = Str(<<"i", "n", "v", "a", "l", "i", "d">>)
    /\ last.result = RangeError

\* The characters of a formatted string, and of the string it came from.
Out == last.result.chars
In == last.input.chars

\* C17: formatting what was parsed gives the string back in canonical form:
\* formatPlainDate(parsePlainDate(s)) is the YYYY-MM-DD of s and denotes the
\* same date; formatInstant(parseInstant(s)) is in UTC with Z and denotes the
\* same instant, fraction included; formatPlainDateTime(parsePlainDateTime(s))
\* and formatPlainTime(parsePlainTime(s)) are s cut to the minute, seconds and
\* fractions dropped and never rounded up.
C17_ParseFormatRoundTrip ==
    last.op = "format" =>
        /\ last.kind = "PlainDate" =>
              /\ Out = SubSeq(In, 1, 10)
              /\ parsePlainDate(last.result) = last.parsed
        /\ last.kind = "Instant" =>
              /\ Out[Len(Out)] = "Z"
              /\ parseInstant(last.result) = last.parsed
              /\ (Len(In) >= 20 /\ In[Len(In)] = "Z") => Out = In
        /\ last.kind = "PlainDateTime" =>
              /\ Len(Out) = 16
              /\ CharAt(In, 11, "T") => Out = SubSeq(In, 1, 16)
              /\ ~CharAt(In, 11, "T") =>
                    Out = SubSeq(In, 1, 10) \o <<"T">> \o MinuteChars(0)
              /\ parsePlainDateTime(last.result).date = last.parsed.date
              /\ parsePlainDateTime(last.result).time.sod = (last.parsed.time.sod \div 60) * 60
        /\ last.kind = "PlainTime" =>
              /\ Len(Out) = 5
              /\ CharAt(In, 11, "T") => Out = SubSeq(In, 12, 16)
              /\ ~CharAt(In, 11, "T") => Out = SubSeq(In, 1, 5)
              /\ parsePlainTime(last.result).sod = (last.parsed.sod \div 60) * 60

\* C17 witness: 2021-12-31T23:59:59 was parsed and formatted as
\* 2021-12-31T23:59.
C17_Witness ==
    /\ last.op = "format"
    /\ last.kind = "PlainDateTime"
    /\ In = DateChars(Date(2021, 12, 31)) \o <<"T">> \o SecondChars(86399)
    /\ Out = DateChars(Date(2021, 12, 31)) \o <<"T">> \o MinuteChars(23 * 3600 + 59 * 60)

----------------------------------------------------------------------------
(* Properties of the conversions *)

\* C15 as stated: toInstant(toJSDateUTC(i)) is i for every instant, and
\* toJSDateUTC(toInstant(x)) has the epoch milliseconds of x for every Date.
C15_ZeroLoss ==
    /\ last.op = "toJSDateAndBack" => last.result = InstantOfValue(last.value)
    /\ last.op = "toInstantAndBack" => last.result = last.value

\* C15: toJSDateUTC keeps the whole milliseconds of the epoch offset and
\* drops what is below: toInstant(toJSDateUTC(i)) is i cut to the
\* millisecond, which is i exactly when i has no part below the millisecond;
\* toJSDateUTC(toInstant(x)) has the epoch milliseconds of x for every Date.
C15_MillisecondRoundTrip ==
    /\ last.op = "toJSDateAndBack" =>
          /\ last.result.s = InstantOfValue(last.value).s
          /\ last.result.ns = (InstantOfValue(last.value).ns \div 1000000) * 1000000
          /\ (last.result = InstantOfValue(last.value))
                = (InstantOfValue(last.value).ns % 1000000 = 0)
    /\ last.op = "toInstantAndBack" => last.result = last.value

\* C15 witness: an instant with 123456789 ns came back with 123000000 ns.
C15_Witness ==
    /\ last.op = "toJSDateAndBack"
    /\ last.value = Inst(EpochSec(2022, 5, 5, 10, 12, 13), 123456789)
    /\ last.result = Inst(EpochSec(2022, 5, 5, 10, 12, 13), 123000000)

----------------------------------------------------------------------------
(* Properties of the locale formatters *)

\* A formatter has been called and has returned, not thrown.
Returned(name) == last.op = name /\ ~IsError(last.result)
Present(part) == part # NoField

C18_RendersInTimezone ==
    Returned("formatInstantFriendlyDate") =>
        /\ last.result = formatFriendlyInstant(last.instant, last.timezone)
        /\ last.result.hour.value
             = ZdtToPlainTime(toZonedDateTimeISO(last.instant, last.timezone)).sod \div 3600
        /\ last.result.day.value
             = ZdtToPlainDate(toZonedDateTimeISO(last.instant, last.timezone)).day

\* C19: the formatters that take only a PlainDate render the date's own
\* fields on every host: the month formatters name d.month, and
\* formatFriendlyPlainDateShort and formatPlainDateRange show the day of the
\* month of their dates with the matching weekday and month.
C19_OwnFields ==
    /\ Returned("formatPlainDateMonth") => last.result = Field("long", last.date.month)
    /\ Returned("formatPlainDateShortMonth") => last.result = Field("short", last.date.month)
    /\ Returned("formatFriendlyPlainDateShort") =>
          /\ last.result.day.value = last.date.day
          /\ last.result.month.value = last.date.month
          /\ Present(last.result.weekday)
                => last.result.weekday.value = DayOfWeek(last.date)
    /\ Returned("formatPlainDateRange") =>
          /\ last.result.start.day.value = last.date1.day
          /\ last.result.end.day.value = last.date2.day
          /\ last.result.end.month.value = last.date2.month

FriendlyFormatters ==
    {"formatFriendlyInstant", "formatFriendlyPlainDate", "formatFriendlyPlainDateShort",
     "formatFriendlyDateTime", "formatPlainDateRange", "formatPlainDateMonth"}
RelativeFormatters == {"formatRelativeInstant", "formatRelativeIso8601DateTimeStr"}
FixedPatternFormatters ==
    {"formatPlainDate", "formatPlainDateTime", "formatPlainTime", "formatInstant"}

\* C20: on a host without Intl.DateTimeFormat every friendly formatter, and
\* on a host without Intl.RelativeTimeFormat every relative formatter, fails
\* when called with the library's own unsupported-environment error, and
\* with no error where the facility is there; the fixed-pattern formatters
\* return on every host.
C20_DedicatedError ==
    /\ last.op \in FriendlyFormatters =>
          IF IntlHas("DateTimeFormat") THEN ~IsError(last.result)
          ELSE last.result = UnsupportedDateTimeFormat
    /\ last.op \in RelativeFormatters =>
          IF IntlHas("RelativeTimeFormat") THEN ~IsError(last.result)
          ELSE last.result = UnsupportedRelativeTimeFormat
    /\ last.op \in FixedPatternFormatters => ~IsError(last.result)

----------------------------------------------------------------------------
(* Properties of the optional variants *)

\* What a function answers for an absent input: null for the two that turn
\* an ISO 8601 string into a time, undefined for the others.
AbsentOf(f) ==
    IF f \in {"formatOptionalIso8601ToTime", "formatOptionalIso8601ToTimeWithSeconds"}
    THEN Null ELSE Undefined

\* The statement that only null and undefined, and for the two functions
\* that answer null the empty string as well, are absent inputs, and that
\* every other input is answered as the non-optional counterpart answers it.
C16_AbsentOnlyWhenNullish ==
    last.op = "optional" =>
        IF IsNullish(last.input)
           \/ (AbsentOf(last.f) = Null /\ last.input = EmptyString)
        THEN last.result = AbsentOf(last.f)
        ELSE last.result = callCounterpart(last.f, last.input, last.timezone)

\* C16: every optional conversion and formatter answers null, undefined and
\* (where it takes a string) the empty string with its absent result, never
\* failing: undefined, or null for formatOptionalIso8601ToTime and
\* formatOptionalIso8601ToTimeWithSeconds; every other input it answers
\* exactly as the function it hands the value to does, the same value or the
\* same error.
C16_OptionalVariants ==
    last.op = "optional" =>
        IF Falsy(last.input)
        THEN last.result = AbsentOf(last.f)
        ELSE last.result = callCounterpart(last.f, last.input, last.timezone)

\* formatOptionalIso8601ToTime has answered null for an absent input, and an
\* optional formatter has answered a present one.
C16_Witness ==
    /\ last.op = "optional"
    /\ \/ /\ last.f = "formatOptionalIso8601ToTime"
          /\ last.input = Undefined
          /\ last.result = Null
       \/ /\ last.f = "formatOptionalRelativeIso8601DateTimeStr"
          /\ last.input = EmptyString
          /\ last.result = Undefined
          /\ IsError(callCounterpart(last.f, last.input, last.timezone))

----------------------------------------------------------------------------
(* Properties of the duration predicates *)

\* C21: durations of hours, minutes and seconds are compared by their total
\* length, not field by field: isDurationEqual is true exactly when the two
\* lengths are the same, isDurationGreater exactly when the first is longer,
\* isDurationLess exactly when it is shorter.
C21_DurationsByLength ==
    last.op = "compareDurations" =>
        /\ last.equal <=> (DurationSeconds(last.a) = DurationSeconds(last.b))
        /\ last.after <=> (DurationSeconds(last.a) > DurationSeconds(last.b))
        /\ last.before <=> (DurationSeconds(last.a) < DurationSeconds(last.b))

\* One hour was compared with sixty minutes and found equal.
C21_Witness ==
    /\ last.op = "compareDurations"
    /\ last.a = Duration(1, 0, 0)
    /\ last.b = Duration(0, 60, 0)
    /\ last.equal /\ ~last.after /\ ~last.before

----------------------------------------------------------------------------
(* Properties of the conversion of civil date-times *)

----------------------------------------------------------------------------
(* Properties of the calls that read the clock *)

\* The instant now() returned to a call: the instant installed, if any,
\* otherwise the host clock.
NowAt(clock) ==
    IF clock.mock # {} THEN CHOOSE i \in clock.mock : TRUE ELSE Inst(clock.host, 0)

\* C23: isToday(d, tz) is true exactly when d is the calendar date in tz of
\* the instant now() returns; with the clock fixed at 2022-07-09T20:00Z,
\* 2022-07-09 is today in UTC, Europe/London and America/Halifax and not in
\* Japan.
C23_TodayInZone ==
    last.op = "isToday" =>
        /\ last.result = (last.date = instantToPlainDate(NowAt(last.clock), last.tz))
        /\ (last.clock.mock = {Inst(EpochSec(2022, 7, 9, 20, 0, 0), 0)}
            /\ last.date = Date(2022, 7, 9)
            /\ last.tz \in {"UTC", "Europe/London", "America/Halifax", "Japan"})
              => last.result = (last.tz # "Japan")

\* With the clock fixed at 2022-07-09T20:00Z, 2022-07-09 was found not to be
\* today in Japan.
C23_Witness ==
    /\ last.op = "isToday"
    /\ last.clock.mock = {Inst(EpochSec(2022, 7, 9, 20, 0, 0), 0)}
    /\ last.date = Date(2022, 7, 9)
    /\ last.tz = "Japan"
    /\ last.result = FALSE

\* C24: currentTime reads the host clock and not now(): whatever instant
\* is installed, replaced or cleared, currentTime(tz) is the wall time of the
\* host clock in tz, right after a mockNow or unmockNow as in any call of
\* currentTime, while now, nowLocal and todayLocal give the instant installed.
C24_CurrentTimeBypassesMock ==
    /\ last.op \in {"mockNow", "unmockNow"} =>
          \A tz \in Zones : currentTime(tz) = ZdtToPlainTime(Zdt(Inst(hostClock, 0), tz))
    /\ last.op = "currentTime" =>
          last.result = ZdtToPlainTime(Zdt(Inst(last.clock.host, 0), last.tz))
    /\ last.op = "mockNow" =>
          /\ now = last.inst
          /\ \A tz \in Zones :
                /\ nowLocal(tz) = Zdt(last.inst, tz)
                /\ todayLocal(tz) = DateIn(last.inst, tz)

\* currentTime was called while an instant was installed and returned the
\* wall time of the host clock, which is not that of the instant.
C24_Witness ==
    /\ last.op = "currentTime"
    /\ last.clock.mock # {}
    /\ last.result = ZdtToPlainTime(Zdt(Inst(last.clock.host, 0), last.tz))
    /\ last.result # ZdtToPlainTime(Zdt(FixedInstant(last), last.tz))

\* C25: there is one slot for the clock source and the last install wins:
\* a step changes the installed implementation only by mockNow, which puts
\* its own argument there whatever was installed before, so every later
\* now(), nowLocal and todayLocal gives the instant of the most recent mockNow.
C25_LastInstallWins ==
    [][/\ spyImpl' # spyImpl => (last'.op = "mockNow" /\ last' # last)
       /\ (last'.op = "mockNow" /\ last' # last) =>
             /\ last'.replaced = spyImpl
             /\ spyImpl' = {last'.inst}
       /\ (last'.op \in {"now", "nowLocal", "todayLocal"} /\ spyImpl # NoImpl) =>
             /\ last'.clock.mock = spyImpl
             /\ \E i \in spyImpl :
                   /\ spyImpl = {i}
                   /\ last'.op = "now" => last'.result = i
                   /\ last'.op = "nowLocal" => last'.result = Zdt(i, last'.tz)
                   /\ last'.op = "todayLocal" => last'.result = DateIn(i, last'.tz)]_vars

\* mockNow(i2) replaced an installed i1 that differs from i2, and now() is i2.
C25_Witness ==
    /\ last.op = "mockNow"
    /\ last.replaced # NoImpl
    /\ last.replaced # {last.inst}
    /\ spyImpl = {last.inst}
    /\ now = last.inst

----------------------------------------------------------------------------
(* Properties of addBusinessDays as a function *)

\* C26: adding a and then b business days gives what adding a + b gives, for
\* a, b >= 0 and every predicate (neither returns when the predicate never
\* holds and a + b >= 1), and for n >= 1 one more business day gives a
\* strictly later date.
C26_Additive ==
    /\ last.op = "addTwice" =>
          last.result = addBusinessDays(last.date, last.a + last.b, last.pred)
    /\ last.op = "addOnce" =>
          last.result = addBusinessDays(addBusinessDays(last.date, last.a, last.pred),
                                        last.b, last.pred)
    /\ (last.op = "addOneMore" /\ last.a >= 1 /\ Returns_(last.more)) =>
          /\ Returns_(last.result)
          /\ ToEpochDay(last.more) > ToEpochDay(last.result)

\* Two days from a Saturday and then three more, past both holidays: the
\* first call ends on the Thursday and the second on the following Tuesday.
C26_Witness ==
    /\ last.op = "addTwice"
    /\ last.pred = "holidays"
    /\ last.date = Date(2022, 8, 6)
    /\ last.a = 2 /\ last.b = 3
    /\ last.first = Date(2022, 8, 11)
    /\ last.result = Date(2022, 8, 16)

\* The days a call of the model can reach, and the predicates that hold on
\* at least one day of every 7 consecutive days among them.
FollowedDays == { AddDays(d, k) : d \in BusinessDates, k \in 0..Horizon }
HoldsWeekly(pred) ==
    \A d \in FollowedDays : \E k \in 0..6 : isBusinessDay(pred, AddDays(d, k))
WeeklyPredicates == { p \in Predicates : HoldsWeekly(p) }

\* C27: with a predicate that holds at least once in every 7 consecutive
\* days the call returns, for every date and every n; a round passes over at
\* most 6 days, and at most 2 with the default predicate; with a predicate
\* that never holds the call does not return for n >= 1.
C27_Terminates ==
    /\ (abd.pc = "for" /\ abd.pred \in WeeklyPredicates) ~> (abd.pc = "done")
    /\ []((abd.pc # "idle" /\ abd.pred \in WeeklyPredicates) => abd.skipped <= 6)
    /\ []((abd.pc # "idle" /\ abd.pred = "weekdays") => abd.skipped <= 2)
    /\ []((abd.pc # "idle" /\ abd.pred = "never" /\ abd.n >= 1) => abd.pc # "done")

\* The call with the Sundays-only predicate returned after MaxN rounds, the
\* last of which passed over six days.
C27_Witness ==
    /\ abd.pc = "done"
    /\ abd.pred = "sundays"
    /\ abd.pred \in WeeklyPredicates
    /\ "never" \notin WeeklyPredicates
    /\ abd.n = MaxN
    /\ abd.skipped = 6

----------------------------------------------------------------------------
(* Properties of the numbers formatRelativeInstant renders *)

\* The largest number a unit is rendered with: one less than the count of
\* this unit in the next larger one.
LargestNumber(unit) ==
    CASE unit = "seconds" -> 59
      [] unit = "minutes" -> 59
      [] unit = "hours"   -> 23
      [] unit = "days"    -> 6
      [] unit = "weeks"   -> 4
      [] unit = "months"  -> 11

\* The instant is less than one second from the fixed clock.
WithinOneSecond(call) ==
    \E n \in spyImpl : Since(call.instant, n).s = 0

\* C28: with the clock fixed, the number rendered is between 1 and 59 in
\* absolute value for seconds and minutes, 1 and 23 for hours, 1 and 6 for
\* days, 1 and 4 for weeks and 1 and 11 for months; it is 0 only in "now",
\* which is the phrase exactly when the instant is less than one second away.
C28_NumberBounds ==
    last.op = "formatRelativeInstant" =>
        /\ (last.result.phrase = "now") = WithinOneSecond(last)
        /\ last.result.phrase # "now" =>
              /\ Abs(last.result.num) >= 1
              /\ last.result.unit # "years" =>
                    Abs(last.result.num) <= LargestNumber(last.result.unit)

----------------------------------------------------------------------------
(* Properties of the interval check as a relation *)

\* start strictly before end, and t within the half-open range [start, end).
WellFormed(interval) == Earlier(interval.start, interval.end)
Within(t, interval) == ~Earlier(t, interval.start) /\ Earlier(t, interval.end)

\* C29: areIntervalsOverlapping gives the same answer with its arguments
\* exchanged; for two intervals with start strictly before end it is true
\* exactly when some instant lies in both half-open ranges; and an interval
\* with start strictly before end overlaps itself.
C29_SymmetricCommonInstant ==
    last.op = "areIntervalsOverlapping" =>
        /\ last.result = areIntervalsOverlapping(last.interval2, last.interval1)
        /\ (WellFormed(last.interval1) /\ WellFormed(last.interval2)) =>
              last.result = (\E t \in IntervalInstants :
                                Within(t, last.interval1) /\ Within(t, last.interval2))
        /\ WellFormed(last.interval1) =>
              areIntervalsOverlapping(last.interval1, last.interval1)

\* Two different well-formed intervals were found to overlap, the second
\* starting inside the first and ending after it.
C29_Witness ==
    /\ last.op = "areIntervalsOverlapping"
    /\ WellFormed(last.interval1) /\ WellFormed(last.interval2)
    /\ Within(last.interval2.start, last.interval1)
    /\ Earlier(last.interval1.start, last.interval2.start)
    /\ Earlier(last.interval1.end, last.interval2.end)
    /\ last.result = TRUE

----------------------------------------------------------------------------
(* Properties of the predicates as an order *)

HowMany(flags) == Cardinality({ k \in DOMAIN flags : flags[k] })

\* C30: of is...After(a, b), is...Before(a, b) and is...Equal(a, b) exactly
\* one is true, for dates, times and instants, and is...After(a, b) is
\* is...Before(b, a); with the clock fixed, at most one of isToday(d, tz),
\* isTomorrow(d, tz) and isYesterday(d, tz) is true.
C30_Trichotomy ==
    /\ last.op \in {"compareDates", "compareTimes", "compareInstants"} =>
          HowMany(<<last.after, last.before, last.equal>>) = 1
    /\ last.op = "compareDates" =>
          /\ last.after = isDateBefore(last.b, last.a)
          /\ last.before = isDateAfter(last.b, last.a)
    /\ last.op = "compareTimes" =>
          /\ last.after = isTimeBefore(last.b, last.a)
          /\ last.before = isTimeAfter(last.b, last.a)
    /\ last.op = "compareInstants" =>
          /\ last.after = isInstantBefore(last.b, last.a)
          /\ last.before = isInstantAfter(last.b, last.a)
    /\ last.op = "compareWithToday" =>
          HowMany(<<last.today, last.tomorrow, last.yesterday>>) <= 1

\* A date was found to be after another one, and neither before nor equal.
C30_Witness ==
    /\ last.op = "compareDates"
    /\ last.a = Date(2022, 8, 1)
    /\ last.b = Date(2022, 7, 31)
    /\ last.after /\ ~last.before /\ ~last.equal
    /\ isDateBefore(last.b, last.a)

====
